---- MODULE Spec2Model ----
(***************************************************************************)
(* A model of the TOON codec of n8n-nodes-toon: ToonEncoder (JSON value to *)
(* TOON text), ToonDecoder (TOON text to JSON value) and the ToonUtils     *)
(* helpers they share.                                                     *)
(*                                                                         *)
(* A JavaScript string is a sequence of one-character strings, so that the *)
(* scanners, the regular expressions and the escapes of the source are     *)
(* computed character by character as the source computes them.            *)
(*                                                                         *)
(* A JavaScript value is a tagged record [t, v]:                           *)
(*   null    [t |-> "null", v |-> <<>>]                                    *)
(*   boolean [t |-> "bool", v |-> TRUE]                                    *)
(*   number  [t |-> "num",  v |-> [neg, ds, n]]  (decimal digits ds and    *)
(*           the position n of the decimal point, as Number::toString of   *)
(*           ECMA-262 describes a double by its shortest digit string)     *)
(*   string  [t |-> "str",  v |-> <<chars>>]                               *)
(*   array   [t |-> "arr",  v |-> <<values>>]                              *)
(*   object  [t |-> "obj",  v |-> <<[k |-> chars, v |-> value], ...>>]     *)
(*           (own properties in the order Object.entries lists them)       *)
(*                                                                         *)
(* A call either returns a value or throws: [ok, v, err].                  *)
(***************************************************************************)
EXTENDS Integers, Sequences, FiniteSets, TLC

VARIABLES
    pc,      \* the step the invocation under study has reached
    opts,    \* the options the encoder and the decoder were constructed with
    value,   \* the JavaScript value handed to the operation
    text,    \* the text produced by the writing side / read by the reading side
    result,  \* the outcome of the reading side: a value or a thrown error
    proto,   \* the properties added to Object.prototype since the process started
    stack    \* the calls of parseObject and parseArray in progress, innermost last

vars == <<pc, opts, value, text, result, proto, stack>>

(***************************************************************************)
(* Characters                                                              *)
(***************************************************************************)
BS == "\\"
QT == "\""
NL == "\n"
CR == "\r"
TAB == "\t"
SP == " "

Digit == {"0", "1", "2", "3", "4", "5", "6", "7", "8", "9"}
Lower == {"a", "b", "c", "d", "e", "f", "g", "h", "i", "j", "k", "l", "m",
          "n", "o", "p", "q", "r", "s", "t", "u", "v", "w", "x", "y", "z"}
Upper == {"A", "B", "C", "D", "E", "F", "G", "H", "I", "J", "K", "L", "M",
          "N", "O", "P", "Q", "R", "S", "T", "U", "V", "W", "X", "Y", "Z"}
\* white space that leaves the carriage return out
WhiteSpaceWithoutCr == {SP, TAB, NL}

\* \s of the regular expressions and the characters String.prototype.trim
\* strips, among the characters the model uses
WhiteSpace == {SP, TAB, NL, CR}
\* what "." matches in a regular expression without the s flag
DotChar(c) == c \notin {NL, CR}

(***************************************************************************)
(* Thrown errors and call outcomes                                         *)
(***************************************************************************)
NoErr == [cls |-> "none", msg |-> "none", line |-> 0]
\* new ToonDecodingError(message, {lineNumber}); line 0: no lineNumber given
ToonDecodingError(msg, line) == [cls |-> "ToonDecodingError", msg |-> msg, line |-> line]
\* new Error(message)
PlainError(msg) == [cls |-> "Error", msg |-> msg, line |-> 0]

JNull == [t |-> "null", v |-> <<>>]
JBool(b) == [t |-> "bool", v |-> b]
JNum(d) == [t |-> "num", v |-> d]
JStr(s) == [t |-> "str", v |-> s]
JArr(a) == [t |-> "arr", v |-> a]
JObj(es) == [t |-> "obj", v |-> es]

Ok(v) == [ok |-> TRUE, v |-> v, err |-> NoErr]
Throw(e) == [ok |-> FALSE, v |-> JNull, err |-> e]
NoResult == [ok |-> FALSE, v |-> JNull, err |-> NoErr]

(***************************************************************************)
(* String primitives of JavaScript                                         *)
(***************************************************************************)
RECURSIVE TrimStart(_)
TrimStart(s) ==
    IF s # <<>> /\ Head(s) \in WhiteSpace THEN TrimStart(Tail(s)) ELSE s

RECURSIVE TrimEnd(_)
TrimEnd(s) ==
    IF s # <<>> /\ s[Len(s)] \in WhiteSpace
    THEN TrimEnd(SubSeq(s, 1, Len(s) - 1))
    ELSE s

Trim(s) == TrimEnd(TrimStart(s))

Includes(s, c) == \E i \in 1..Len(s) : s[i] = c

\* s.slice(from) with 0-based from
SliceFrom(s, from) == SubSeq(s, from + 1, Len(s))
\* s.slice(from, to) with 0-based from and exclusive to, 0 <= from <= to
Slice(s, from, to) == SubSeq(s, from + 1, to)

\* token.startsWith('"') && token.endsWith('"')
IsQuoted(s) == s # <<>> /\ s[1] = QT /\ s[Len(s)] = QT
\* token.slice(1, -1)
Slice1m1(s) == IF Len(s) < 2 THEN <<>> ELSE SubSeq(s, 2, Len(s) - 1)

\* str.replace(/c/g, rep) for a one-character pattern
RECURSIVE ReplaceAll(_, _, _)
ReplaceAll(s, c, rep) ==
    IF s = <<>> THEN <<>>
    ELSE (IF Head(s) = c THEN rep ELSE <<Head(s)>>) \o ReplaceAll(Tail(s), c, rep)

RECURSIVE Join(_, _)
Join(parts, sep) ==
    IF parts = <<>> THEN <<>>
    ELSE IF Len(parts) = 1 THEN parts[1]
    ELSE parts[1] \o sep \o Join(Tail(parts), sep)

(***************************************************************************)
(* ToonUtils: escapeString, unescapeString                                 *)
(***************************************************************************)
\* the same five replacements with the backslash replaced last
escapeStringBackslashLast(str) ==
    ReplaceAll(ReplaceAll(ReplaceAll(ReplaceAll(ReplaceAll(str,
        QT, <<BS, QT>>), NL, <<BS, "n">>), CR, <<BS, "r">>), TAB, <<BS, "t">>),
        BS, <<BS, BS>>)

escapeString(str) ==
    ReplaceAll(ReplaceAll(ReplaceAll(ReplaceAll(ReplaceAll(str,
        BS, <<BS, BS>>), QT, <<BS, QT>>), NL, <<BS, "n">>), CR, <<BS, "r">>),
        TAB, <<BS, "t">>)

RECURSIVE UnescapeFrom(_, _, _)
UnescapeFrom(str, i, acc) ==
    IF i > Len(str) THEN Ok(JStr(acc))
    ELSE IF str[i] = BS
    THEN IF i + 1 > Len(str)
         THEN Throw(PlainError("Invalid escape sequence: trailing backslash"))
         ELSE CASE str[i + 1] = BS -> UnescapeFrom(str, i + 2, Append(acc, BS))
                [] str[i + 1] = QT -> UnescapeFrom(str, i + 2, Append(acc, QT))
                [] str[i + 1] = "n" -> UnescapeFrom(str, i + 2, Append(acc, NL))
                [] str[i + 1] = "r" -> UnescapeFrom(str, i + 2, Append(acc, CR))
                [] str[i + 1] = "t" -> UnescapeFrom(str, i + 2, Append(acc, TAB))
                [] OTHER -> Throw(PlainError("Invalid escape sequence"))
    ELSE UnescapeFrom(str, i + 1, Append(acc, str[i]))

\* returns Ok(JStr(...)) or throws a plain Error
unescapeString(str) == UnescapeFrom(str, 1, <<>>)

(***************************************************************************)
(* Numbers.  A finite double is held by the decimal digits ds of its       *)
(* shortest round-trip form and the position n of the decimal point:       *)
(* |x| = 0.d1 d2 ... dk * 10^n, as in Number::toString of ECMA-262.  Zero  *)
(* is ds = <<"0">>, n = 1; neg distinguishes -0 from 0.  The numbers the   *)
(* model draws have digit strings that a double holds exactly (d or d.5),  *)
(* so that the digits toFixed prints and the product mantissa * 10^exp     *)
(* (exp <= 22) are the decimal ones.                                       *)
(***************************************************************************)
DigitChars == <<"0", "1", "2", "3", "4", "5", "6", "7", "8", "9">>
DigitVal(c) == (CHOOSE i \in 1..10 : DigitChars[i] = c) - 1

RECURSIVE NatToStr(_)
NatToStr(k) ==
    IF k < 10 THEN <<DigitChars[k + 1]>>
    ELSE Append(NatToStr(k \div 10), DigitChars[(k % 10) + 1])

RECURSIVE StrToNat(_)
StrToNat(s) ==
    IF s = <<>> THEN 0
    ELSE 10 * StrToNat(SubSeq(s, 1, Len(s) - 1)) + DigitVal(s[Len(s)])

RECURSIVE Zeros(_)
Zeros(k) == IF k <= 0 THEN <<>> ELSE <<"0">> \o Zeros(k - 1)

\* the length of the run of characters of set cs at the start of s
RECURSIVE RunLen(_, _)
RunLen(s, cs) ==
    IF s # <<>> /\ Head(s) \in cs THEN 1 + RunLen(Tail(s), cs) ELSE 0

\* the length of the run of "0" at the end of s
RECURSIVE TrailingZeros(_)
TrailingZeros(s) ==
    IF s # <<>> /\ s[Len(s)] = "0"
    THEN 1 + TrailingZeros(SubSeq(s, 1, Len(s) - 1))
    ELSE 0

IsZero(d) == d.ds = <<"0">>
MkNum(neg, ds, n) == [neg |-> neg, ds |-> ds, n |-> n]
Zero == MkNum(FALSE, <<"0">>, 1)

\* the double denoted by the decimal digits all with the point after the
\* first pointPos of them: leading and trailing zeros are not significant
NormNum(neg, all, pointPos) ==
    LET lead == RunLen(all, {"0"})
        rest == SubSeq(all, lead + 1, Len(all))
        sig == SubSeq(rest, 1, Len(rest) - TrailingZeros(rest))
    IN IF sig = <<>> THEN MkNum(neg, <<"0">>, 1)
       ELSE MkNum(neg, sig, pointPos - lead)

\* Number.prototype.toString (radix 10), ECMA-262 Number::toString
NumberToString(d) ==
    LET k == Len(d.ds)
        n == d.n
        sign == IF d.neg THEN <<"-">> ELSE <<>>
        e == n - 1
        expo == <<"e">> \o (IF e < 0 THEN <<"-">> ELSE <<"+">>)
                \o NatToStr(IF e < 0 THEN -e ELSE e)
    IN IF IsZero(d) THEN <<"0">>
       ELSE sign \o
            (IF k <= n /\ n <= 21 THEN d.ds \o Zeros(n - k)
             ELSE IF 0 < n /\ n <= 21
                  THEN SubSeq(d.ds, 1, n) \o <<".">> \o SubSeq(d.ds, n + 1, k)
             ELSE IF -6 < n /\ n <= 0 THEN <<"0", ".">> \o Zeros(-n) \o d.ds
             ELSE IF k = 1 THEN d.ds \o expo
             ELSE <<d.ds[1], ".">> \o SubSeq(d.ds, 2, k) \o expo)

\* Number.prototype.toExponential() with no argument: as many digits as necessary
NumberToExponential(d) ==
    LET k == Len(d.ds)
        e == IF IsZero(d) THEN 0 ELSE d.n - 1
        sign == IF d.neg /\ ~IsZero(d) THEN <<"-">> ELSE <<>>
    IN sign \o <<d.ds[1]>>
       \o (IF k > 1 THEN <<".">> \o SubSeq(d.ds, 2, k) ELSE <<>>)
       \o <<"e">> \o (IF e < 0 THEN <<"-">> ELSE <<"+">>)
       \o NatToStr(IF e < 0 THEN -e ELSE e)

\* Number.prototype.toFixed(f) of a number with 0 < n <= k + f whose digits
\* a double holds exactly; f > 100 is a RangeError (MaxToFixed)
MaxToFixed == 100
NumberToFixed(d, f) ==
    LET k == Len(d.ds)
        sign == IF d.neg /\ ~IsZero(d) THEN <<"-">> ELSE <<>>
        ip == IF k <= d.n THEN d.ds \o Zeros(d.n - k) ELSE SubSeq(d.ds, 1, d.n)
        fp == IF k <= d.n THEN <<>> ELSE SubSeq(d.ds, d.n + 1, k)
    IN sign \o ip \o (IF f > 0 THEN <<".">> \o fp \o Zeros(f - Len(fp)) ELSE <<>>)

\* str.replace(/\.?0+$/, '')
StripTrailingZeros(s) ==
    LET z == TrailingZeros(s)
        cut == SubSeq(s, 1, Len(s) - z)
    IN IF z = 0 THEN s
       ELSE IF cut # <<>> /\ cut[Len(cut)] = "." THEN SubSeq(cut, 1, Len(cut) - 1)
       ELSE cut

\* str.replace(/^(-?)0+(\d)/, '$1$2')
StripLeadingZeros(s) ==
    LET sign == IF s # <<>> /\ s[1] = "-" THEN <<"-">> ELSE <<>>
        body == SubSeq(s, Len(sign) + 1, Len(s))
        z == RunLen(body, {"0"})
        after == SubSeq(body, z + 1, Len(body))
    IN IF z >= 1 /\ after # <<>> /\ after[1] \in Digit THEN sign \o after
       ELSE IF z >= 2 THEN sign \o <<"0">> \o after
       ELSE s

\* parseInt(exponent, 10) of a text [+-]\d+
ParseIntSigned(s) ==
    IF s[1] = "-" THEN -StrToNat(Tail(s))
    ELSE IF s[1] = "+" THEN StrToNat(Tail(s))
    ELSE StrToNat(s)

\* the index of the first occurrence of c in s, 0 when there is none
RECURSIVE IndexOfFrom(_, _, _)
IndexOfFrom(s, c, i) ==
    IF i > Len(s) THEN 0 ELSE IF s[i] = c THEN i ELSE IndexOfFrom(s, c, i + 1)
IndexOf1(s, c) == IndexOfFrom(s, c, 1)

\* the number of mantissa digits mant (with its point at dot, 0 when it has
\* none) times ten to the ex
DecimalOf(neg, mant, dot, ex) ==
    IF dot > 0
    THEN NormNum(neg, SubSeq(mant, 1, dot - 1) \o SubSeq(mant, dot + 1, Len(mant)),
                 dot - 1 + ex)
    ELSE NormNum(neg, mant, Len(mant) + ex)

DecimalSplit(neg, body, ePos) ==
    IF ePos > 0
    THEN DecimalOf(neg, SubSeq(body, 1, ePos - 1),
                   IndexOf1(SubSeq(body, 1, ePos - 1), "."),
                   ParseIntSigned(SubSeq(body, ePos + 1, Len(body))))
    ELSE DecimalOf(neg, body, IndexOf1(body, "."), 0)

\* the position of the exponent marker: a numeric text holds at most one of
\* "e" and "E", so one of the two positions is 0
DecimalBody(neg, body) ==
    DecimalSplit(neg, body, IndexOf1(body, "e") + IndexOf1(body, "E"))

\* Number(token) / parseFloat(token) of a text -?\d+(\.\d+)?([eE][+-]?\d+)?
ParseDecimal(s) ==
    IF s[1] = "-" THEN DecimalBody(TRUE, Tail(s)) ELSE DecimalBody(FALSE, s)

\* mantissaNum * Math.pow(10, exp)
TimesPow10(d, ex) == IF IsZero(d) THEN d ELSE MkNum(d.neg, d.ds, d.n + ex)

(***************************************************************************)
(* ToonUtils: canonicalizeNumber, expandExponentialNotation                *)
(***************************************************************************)
\* Math.abs(num) >= 1e21 || (absNum < 1e-6 && absNum > 0)
OutsidePlainRange(d) == ~IsZero(d) /\ (d.n >= 22 \/ d.n <= -6)

Abs(i) == IF i < 0 THEN -i ELSE i

\* the two branches on exp of expandExponentialNotation, with
\* mantissaNum = parseFloat(mantissa) and exp = parseInt(exponent, 10)
ExpandShifted(mantissaNum, exp) ==
    IF exp >= 0
    THEN Ok(JStr(StripTrailingZeros(NumberToString(TimesPow10(mantissaNum, exp)))))
    ELSE IF Abs(exp) + 10 > MaxToFixed
    THEN Throw(PlainError("RangeError: toFixed() digits argument"))
    ELSE Ok(JStr(StripTrailingZeros(NumberToFixed(mantissaNum, Abs(exp) + 10))))

\* str.match(/^(-?\d\.?\d*)e([+-]\d+)$/) of the text of toExponential, whose
\* "e" is at position ePos
ExpandMatch(str, ePos) ==
    ExpandShifted(ParseDecimal(SubSeq(str, 1, ePos - 1)),
                  ParseIntSigned(SubSeq(str, ePos + 1, Len(str))))

ExpandExponential(str) == ExpandMatch(str, IndexOf1(str, "e"))

\* returns Ok(JStr(text)) or throws the RangeError of toFixed
expandExponentialNotation(num) ==
    IF OutsidePlainRange(num)
    THEN ExpandExponential(NumberToExponential(num))
    ELSE \* Number.isInteger(num), or a toString without exponent: the
         \* text of toString; num.toFixed(20) is reached by no double
         Ok(JStr(NumberToString(num)))

\* if (str !== '0' && !str.startsWith('0.')) str = str.replace(/^(-?)0+(\d)/, '$1$2')
CanonLeading(str) ==
    IF str # <<"0">> /\ ~(Len(str) >= 2 /\ str[1] = "0" /\ str[2] = ".")
    THEN StripLeadingZeros(str) ELSE str

\* if (str.includes('.')) str = str.replace(/\.?0+$/, ''), and what follows
CanonTrailing(str) ==
    CanonLeading(IF Includes(str, ".") THEN StripTrailingZeros(str) ELSE str)

\* the rest of canonicalizeNumber after the call of expandExponentialNotation
CanonExpanded(expanded) ==
    IF expanded.ok THEN Ok(JStr(CanonTrailing(expanded.v.v))) ELSE expanded

\* canonicalizeNumber from const basicStr = num.toString() on
CanonBasic(num, basicStr) ==
    IF Includes(basicStr, "e") \/ Includes(basicStr, "E")
    THEN CanonExpanded(expandExponentialNotation(num))
    ELSE Ok(JStr(CanonTrailing(basicStr)))

\* returns Ok(JStr(text)) or throws
canonicalizeNumber(num) ==
    IF num.neg /\ IsZero(num) THEN Ok(JStr(<<"0">>))
    ELSE CanonBasic(num, NumberToString(num))

\* /^-?\d+(?:\.\d+)?(?:[eE][+-]?\d+)?$/.test(token) && token !== '' && token !== '-'
isNumericToken(token) ==
    LET s0 == IF token # <<>> /\ token[1] = "-" THEN Tail(token) ELSE token
        i1 == RunLen(s0, Digit)
        s1 == SubSeq(s0, i1 + 1, Len(s0))
        hasFrac == Len(s1) >= 2 /\ s1[1] = "." /\ s1[2] \in Digit
        i2 == IF hasFrac THEN 1 + RunLen(Tail(s1), Digit) ELSE 0
        s2 == SubSeq(s1, i2 + 1, Len(s1))
        s3 == IF Len(s2) >= 2 /\ s2[2] \in {"+", "-"}
              THEN SubSeq(s2, 3, Len(s2)) ELSE SubSeq(s2, 2, Len(s2))
    IN /\ i1 >= 1
       /\ \/ s2 = <<>>
          \/ /\ s2[1] \in {"e", "E"}
             /\ s3 # <<>>
             /\ RunLen(s3, Digit) = Len(s3)

\* parseNumber(token): Number(token) of a numeric token is never NaN
parseNumber(token) == JNum(ParseDecimal(token))

\* parseToken(token)
parseToken(token) ==
    IF token = <<"t", "r", "u", "e">> THEN JBool(TRUE)
    ELSE IF token = <<"f", "a", "l", "s", "e">> THEN JBool(FALSE)
    ELSE IF token = <<"n", "u", "l", "l">> THEN JNull
    ELSE IF isNumericToken(token) THEN parseNumber(token)
    ELSE JStr(token)

(***************************************************************************)
(* Objects: own properties in Object.entries order                         *)
(***************************************************************************)
HasKey(es, k) == \E i \in 1..Len(es) : es[i].k = k
Get(es, k) == es[CHOOSE i \in 1..Len(es) : es[i].k = k].v
Keys(es) == [i \in 1..Len(es) |-> es[i].k]
KeySet(es) == {es[i].k : i \in 1..Len(es)}

\* a canonical array index: "0" or digits with no leading zero; Object.entries
\* lists such keys first, in ascending numeric order
IsIndexKey(k) ==
    /\ k # <<>>
    /\ \A i \in 1..Len(k) : k[i] \in Digit
    /\ (Len(k) > 1 => k[1] # "0")
IndexLess(a, b) == Len(a) < Len(b) \/ (Len(a) = Len(b) /\ StrToNat(a) < StrToNat(b))

\* obj[k] = v on the entries es of a plain object: an existing key keeps its
\* place; a new index key goes after the smaller index keys, any other new
\* key goes last; obj['__proto__'] = v creates no own property
ProtoKey == <<"_", "_", "p", "r", "o", "t", "o", "_", "_">>
ObjSet(es, k, v) ==
    IF k = ProtoKey THEN es
    ELSE IF HasKey(es, k)
    THEN [i \in 1..Len(es) |-> IF es[i].k = k THEN [k |-> k, v |-> v] ELSE es[i]]
    ELSE IF IsIndexKey(k)
    THEN LET before == Cardinality({i \in 1..Len(es) :
                           IsIndexKey(es[i].k) /\ IndexLess(es[i].k, k)})
         IN SubSeq(es, 1, before) \o <<[k |-> k, v |-> v]>>
            \o SubSeq(es, before + 1, Len(es))
    ELSE Append(es, [k |-> k, v |-> v])

\* utils.isPlainObject(value)
isPlainObject(v) == v.t = "obj"

(***************************************************************************)
(* ToonDecoder: parseLines                                                 *)
(***************************************************************************)
\* text.split('\n')
RECURSIVE SplitLines(_, _)
SplitLines(s, cur) ==
    IF s = <<>> THEN <<cur>>
    ELSE IF Head(s) = NL THEN <<cur>> \o SplitLines(Tail(s), <<>>)
    ELSE SplitLines(Tail(s), Append(cur, Head(s)))

ParsedLine(line, i) ==
    [content |-> line, indent |-> RunLen(line, {SP}), lineNumber |-> i,
     isEmpty |-> Trim(line) = <<>>]

\* /^\t/.test(line)
TabInIndentation(line) == line # <<>> /\ line[1] = TAB

\* the indentation test with the remainder never compared
BadIndentNever(indent, size) == FALSE

\* indent > 0 && indent % this.options.indent !== 0
BadIndent(indent, size) == indent > 0 /\ indent % size # 0

RECURSIVE ParseLinesFrom(_, _, _, _)
ParseLinesFrom(rawLines, i, parsed, o) ==
    IF i > Len(rawLines) THEN Ok(parsed)
    ELSE IF o.strict /\ TabInIndentation(rawLines[i])
    THEN Throw(ToonDecodingError("Tabs not allowed in indentation", i))
    ELSE IF o.strict /\ BadIndent(RunLen(rawLines[i], {SP}), o.indent)
    THEN Throw(ToonDecodingError("Indentation must be multiple", i))
    ELSE ParseLinesFrom(rawLines, i + 1, Append(parsed, ParsedLine(rawLines[i], i)), o)

\* returns Ok(<<ParsedLine, ...>>) or throws
parseLines(txt, o) == ParseLinesFrom(SplitLines(txt, <<>>), 1, <<>>, o)

\* a filter that keeps every line
FilterKeepsAll(lines) == lines

\* lines.filter((line) => !line.isEmpty)
RECURSIVE FilterNonEmpty(_)
FilterNonEmpty(lines) ==
    IF lines = <<>> THEN <<>>
    ELSE (IF Head(lines).isEmpty THEN <<>> ELSE <<Head(lines)>>)
         \o FilterNonEmpty(Tail(lines))

(***************************************************************************)
(* Regular expressions of the decoder                                      *)
(***************************************************************************)
\* \[\d+[\t|]?\] matched at 1-based position i of s: the position after the
\* match, or 0 when there is no match there
HeaderPatClose(s, j) == IF j <= Len(s) /\ s[j] = "]" THEN j + 1 ELSE 0
HeaderPatSym(s, j) ==
    HeaderPatClose(s, IF j <= Len(s) /\ s[j] \in {TAB, "|"} THEN j + 1 ELSE j)
HeaderPatDigits(s, i, nd) == IF nd >= 1 THEN HeaderPatSym(s, i + 1 + nd) ELSE 0
HeaderPatAt(s, i) ==
    IF i > Len(s) \/ s[i] # "[" THEN 0
    ELSE HeaderPatDigits(s, i, RunLen(SubSeq(s, i + 1, Len(s)), Digit))

\* /^\[\d+[\t|]?\]/.test(s)
StartsWithHeaderPat(s) == HeaderPatAt(s, 1) # 0
\* /\[\d+[\t|]?\]/.test(s)
ContainsHeaderPat(s) == \E i \in 1..Len(s) : HeaderPatAt(s, i) # 0

AllDot(s) == \A i \in 1..Len(s) : DotChar(s[i])

NoHeaderMatch ==
    [m |-> FALSE, keyPart |-> <<>>, lengthStr |-> <<>>, delimSym |-> <<>>,
     fieldsPart |-> <<>>]

\* the end of the header expression, :(.*)$, with the colon expected at
\* position colon; close is the position of the "}" of a field list, 0
\* when there is none
HeaderRegexColon(s, i, after, nd, close, colon) ==
    IF colon <= Len(s) /\ s[colon] = ":" /\ AllDot(SubSeq(s, colon + 1, Len(s)))
    THEN [m |-> TRUE, keyPart |-> SubSeq(s, 1, i - 1),
          lengthStr |-> SubSeq(s, i + 1, i + nd),
          delimSym |-> IF s[i + 1 + nd] \in {TAB, "|"} THEN <<s[i + 1 + nd]>> ELSE <<>>,
          fieldsPart |-> IF close > 0 THEN SubSeq(s, after + 1, close - 1) ELSE <<>>]
    ELSE NoHeaderMatch

\* (?:\{([^}]+)\})? after the "]": the group matches when a "}" follows the
\* "{" with at least one character between them
HeaderRegexFields(s, i, after, nd, close) ==
    IF close > after + 1
    THEN HeaderRegexColon(s, i, after, nd, close, close + 1)
    ELSE HeaderRegexColon(s, i, after, nd, 0, after)

HeaderRegexBracket(s, i, after, nd) ==
    IF after = 0 \/ ~AllDot(SubSeq(s, 1, i - 1)) THEN NoHeaderMatch
    ELSE HeaderRegexFields(s, i, after, nd,
                           IF after <= Len(s) /\ s[after] = "{"
                           THEN IndexOfFrom(s, "}", after + 1) ELSE 0)

\* /^(.*?)\[(\d+)([\t|])?\](?:\{([^}]+)\})?:(.*)$/ tried with the "[" at i:
\* [m, keyPart, lengthStr, delimSym, fieldsPart]
HeaderRegexAt(s, i) ==
    HeaderRegexBracket(s, i, HeaderPatAt(s, i), RunLen(SubSeq(s, i + 1, Len(s)), Digit))

\* the match with the shortest (.*?), that is the leftmost "[" that works
RECURSIVE HeaderRegexFrom(_, _)
HeaderRegexTry(s, i, match) == IF match.m THEN match ELSE HeaderRegexFrom(s, i + 1)
HeaderRegexFrom(s, i) ==
    IF i > Len(s) THEN NoHeaderMatch ELSE HeaderRegexTry(s, i, HeaderRegexAt(s, i))
HeaderRegex(s) == HeaderRegexFrom(s, 1)

\* rawLine.match(/:\s*(.+)$/): group 1 of the leftmost match, <<>> when the
\* expression does not match
RECURSIVE InlineMatchFrom(_, _)
InlineMatchRest(s, j, rest, tail) ==
    IF tail # <<>> /\ AllDot(tail) THEN tail
    ELSE IF rest # <<>> /\ AllDot(rest) /\ tail = <<>> THEN <<rest[Len(rest)]>>
    ELSE InlineMatchFrom(s, j + 1)
InlineMatchAt(s, j, rest) ==
    InlineMatchRest(s, j, rest, SubSeq(rest, RunLen(rest, WhiteSpace) + 1, Len(rest)))
InlineMatchFrom(s, j) ==
    IF j > Len(s) THEN <<>>
    ELSE IF s[j] = ":" THEN InlineMatchAt(s, j, SubSeq(s, j + 1, Len(s)))
    ELSE InlineMatchFrom(s, j + 1)
InlineMatch(s) == InlineMatchFrom(s, 1)

(***************************************************************************)
(* ToonDecoder: parseDelimitedTokens, parseTokenValue, parseArrayHeader    *)
(***************************************************************************)
\* text.slice(i, i + 2) === ', ' at the 1-based position i
CommaSpaceAt(txt, i) == i + 1 <= Len(txt) /\ txt[i] = "," /\ txt[i + 1] = SP

RECURSIVE TokensFrom(_, _, _, _, _, _, _)
TokensFrom(txt, delimiter, i, current, inQuotes, escaped, tokens) ==
    IF i > Len(txt)
    THEN IF Trim(current) # <<>> THEN Append(tokens, Trim(current)) ELSE tokens
    ELSE LET char == txt[i]
         IN IF escaped
            THEN TokensFrom(txt, delimiter, i + 1, Append(current, char), inQuotes,
                            FALSE, tokens)
            ELSE IF char = BS
            THEN TokensFrom(txt, delimiter, i + 1, Append(current, char), inQuotes,
                            TRUE, tokens)
            ELSE IF char = QT
            THEN TokensFrom(txt, delimiter, i + 1, Append(current, char), ~inQuotes,
                            FALSE, tokens)
            ELSE IF ~inQuotes /\ delimiter = "," /\ CommaSpaceAt(txt, i)
            THEN TokensFrom(txt, delimiter, i + 2, <<>>, inQuotes, FALSE,
                            Append(tokens, Trim(current)))
            ELSE IF ~inQuotes /\ char = delimiter
            THEN TokensFrom(txt, delimiter, i + 1, <<>>, inQuotes, FALSE,
                            Append(tokens, Trim(current)))
            ELSE TokensFrom(txt, delimiter, i + 1, Append(current, char), inQuotes,
                            FALSE, tokens)

\* a tokenizer that splits at every delimiter, inside quotes as well
RECURSIVE SplitAtEvery(_, _, _)
SplitAtEvery(txt, delimiter, current) ==
    IF txt = <<>> THEN (IF Trim(current) # <<>> THEN <<Trim(current)>> ELSE <<>>)
    ELSE IF Head(txt) = delimiter
    THEN <<Trim(current)>> \o SplitAtEvery(Tail(txt), delimiter, <<>>)
    ELSE SplitAtEvery(Tail(txt), delimiter, Append(current, Head(txt)))
parseDelimitedTokensIgnoringQuotes(txt, delimiter) == SplitAtEvery(txt, delimiter, <<>>)

\* returns the tokens
parseDelimitedTokens(txt, delimiter) ==
    TokensFrom(txt, delimiter, 1, <<>>, FALSE, FALSE, <<>>)

ParseTrimmed(token) ==
    IF IsQuoted(token) THEN unescapeString(Slice1m1(token)) ELSE Ok(parseToken(token))
\* returns Ok(value) or throws the plain Error of unescapeString
parseTokenValue(token0) == ParseTrimmed(Trim(token0))

\* a key or field name: unquoted and unescaped if quoted, else literal;
\* returns Ok(JStr(key)) or throws
UnquoteKey(keyPart) ==
    IF IsQuoted(keyPart) THEN unescapeString(Slice1m1(keyPart)) ELSE Ok(JStr(keyPart))

\* tokens.map(unquote): Ok(<<names>>) or the first throw
RECURSIVE UnquoteAll(_, _)
UnquoteNext(tokens, acc, u) ==
    IF u.ok THEN UnquoteAll(Tail(tokens), Append(acc, u.v.v)) ELSE u
UnquoteAll(tokens, acc) ==
    IF tokens = <<>> THEN Ok(acc) ELSE UnquoteNext(tokens, acc, UnquoteKey(Head(tokens)))

\* tokens.map((token) => this.parseTokenValue(token)): Ok(<<values>>) or the
\* first throw
RECURSIVE ParseAllTokens(_, _)
ParseNextToken(tokens, acc, u) ==
    IF u.ok THEN ParseAllTokens(Tail(tokens), Append(acc, u.v)) ELSE u
ParseAllTokens(tokens, acc) ==
    IF tokens = <<>> THEN Ok(acc)
    ELSE ParseNextToken(tokens, acc, parseTokenValue(Head(tokens)))

\* the HeaderInfo returned, unless unescaping the key or a field name threw.
\* key: [null, s]; fields: [null, names]
HeaderInfo(line, content, match, delimiter, key, fields) ==
    IF ~key.ok THEN key
    ELSE IF ~fields.ok THEN fields
    ELSE Ok([key |-> IF Trim(match.keyPart) = <<>> THEN [null |-> TRUE, s |-> <<>>]
                     ELSE [null |-> FALSE, s |-> key.v.v],
             length |-> StrToNat(match.lengthStr),
             delimiter |-> delimiter,
             fields |-> IF match.fieldsPart = <<>> THEN [null |-> TRUE, names |-> <<>>]
                        ELSE [null |-> FALSE, names |-> fields.v],
             rawLine |-> content,
             lineNumber |-> line.lineNumber])

HeaderDelimiter(delimSym) ==
    IF delimSym = <<TAB>> THEN TAB ELSE IF delimSym = <<"|">> THEN "|" ELSE ","

HeaderParts(line, content, match, delimiter) ==
    HeaderInfo(line, content, match, delimiter,
               UnquoteKey(Trim(match.keyPart)),
               UnquoteAll(parseDelimitedTokens(match.fieldsPart, delimiter), <<>>))

HeaderOfMatch(line, content, match) ==
    IF ~match.m
    THEN Throw(ToonDecodingError("Invalid array header format", line.lineNumber))
    ELSE HeaderParts(line, content, match, HeaderDelimiter(match.delimSym))

HeaderOfContent(line, content) == HeaderOfMatch(line, content, HeaderRegex(content))

\* returns Ok(HeaderInfo) or throws
parseArrayHeader(line) == HeaderOfContent(line, Trim(line.content))

(***************************************************************************)
(* ToonDecoder: findUnquotedColon, findNextSiblingIndex                    *)
(***************************************************************************)
\* the 0-based index of the first colon outside quotes, -1 when none
RECURSIVE ColonFrom(_, _, _, _)
ColonFrom(txt, i, inQuotes, escaped) ==
    IF i > Len(txt) THEN -1
    ELSE IF escaped THEN ColonFrom(txt, i + 1, inQuotes, FALSE)
    ELSE IF txt[i] = BS THEN ColonFrom(txt, i + 1, inQuotes, TRUE)
    ELSE IF txt[i] = QT THEN ColonFrom(txt, i + 1, ~inQuotes, FALSE)
    ELSE IF txt[i] = ":" /\ ~inQuotes THEN i - 1
    ELSE ColonFrom(txt, i + 1, inQuotes, FALSE)
findUnquotedColon(txt) == ColonFrom(txt, 1, FALSE, FALSE)

\* lines are indexed from 1 here; the source's index is one less.  Returns
\* the index of the next non-empty line at indent <= expectedIndent after
\* currentIndex, Len(lines) + 1 when there is none
RECURSIVE SiblingFrom(_, _, _)
SiblingFrom(lines, index, expectedIndent) ==
    IF index > Len(lines) THEN Len(lines) + 1
    ELSE IF lines[index].isEmpty THEN SiblingFrom(lines, index + 1, expectedIndent)
    ELSE IF lines[index].indent <= expectedIndent THEN index
    ELSE SiblingFrom(lines, index + 1, expectedIndent)
\* findNextSiblingIndex with the scan starting at currentIndex itself
findNextSiblingIndexFromCurrent(lines, currentIndex, expectedIndent) ==
    SiblingFrom(lines, currentIndex, expectedIndent)

findNextSiblingIndex(lines, currentIndex, expectedIndent) ==
    SiblingFrom(lines, currentIndex + 1, expectedIndent)

(***************************************************************************)
(* ToonDecoder: parseArray, parseTabularArray, parseObject                 *)
(* Line indexes are 1-based (the source's index plus one); o is            *)
(* this.options.  Each returns Ok(value) or the error thrown.              *)
(***************************************************************************)
NullObj == [null |-> TRUE, es |-> <<>>]
\* if (currentObj !== null) values.push(currentObj)
Flush(values, cur) == IF cur.null THEN values ELSE Append(values, JObj(cur.es))

\* the strict-mode count validation comparing with a length one too large
CountMismatchOffByOne(o, n, declared) == o.strict /\ n # declared + 1

\* the count check made by the lax decoder instead of the strict one
CountMismatchInLax(o, n, declared) == ~o.strict /\ n # declared

\* this.options.strict && values.length !== header.length
CountMismatch(o, n, declared) == o.strict /\ n # declared

\* the validation at the end of parseArray
FinishArray(values, h, o) ==
    IF CountMismatch(o, Len(values), h.length)
    THEN Throw(ToonDecodingError("Array length mismatch", h.lineNumber))
    ELSE Ok(JArr(values))

RECURSIVE BuildRow(_, _, _, _)
BuildField(fields, tokens, i, row, tv) ==
    IF tv.ok THEN BuildRow(fields, tokens, i + 1, ObjSet(row, fields[i], tv.v)) ELSE tv
\* the row object of a tabular line: Ok(entries) or the first throw
BuildRow(fields, tokens, i, row) ==
    IF i > Len(fields) THEN Ok(row)
    ELSE IF i <= Len(tokens)
    THEN BuildField(fields, tokens, i, row, parseTokenValue(tokens[i]))
    ELSE BuildField(fields, tokens, i, row, Ok(JNull))

RECURSIVE parseArray(_, _, _)
RECURSIVE parseObject(_, _, _, _)
RECURSIVE ArrayLoop(_, _, _, _, _)
RECURSIVE ObjectLoop(_, _, _)
RECURSIVE TabularLoop(_, _, _, _, _, _)

\* rows.push(row)
TabularPush(lines, h, baseIndent, idx, rows, o, row) ==
    IF ~row.ok THEN row
    ELSE TabularLoop(lines, h, baseIndent, idx + 1, Append(rows, JObj(row.v)), o)

\* a row line with its tokens
TabularRow(lines, h, baseIndent, idx, rows, o, tokens) ==
    IF o.strict /\ Len(tokens) # Len(h.fields.names)
    THEN Throw(ToonDecodingError("Row field count mismatch", lines[idx].lineNumber))
    ELSE TabularPush(lines, h, baseIndent, idx, rows, o,
                     BuildRow(h.fields.names, tokens, 1, <<>>))

\* the while loop of parseTabularArray
TabularLoop(lines, h, baseIndent, idx, rows, o) ==
    IF idx > Len(lines) \/ Len(rows) >= h.length THEN Ok(JArr(rows))
    ELSE IF lines[idx].isEmpty
    THEN IF o.strict
         THEN Throw(ToonDecodingError("Blank lines not allowed in arrays",
                                      lines[idx].lineNumber))
         ELSE TabularLoop(lines, h, baseIndent, idx + 1, rows, o)
    ELSE IF lines[idx].indent <= baseIndent THEN Ok(JArr(rows))
    ELSE TabularRow(lines, h, baseIndent, idx, rows, o,
                    parseDelimitedTokens(Trim(lines[idx].content), h.delimiter))

parseTabularArray(lines, startIndex, h, o) ==
    TabularLoop(lines, h, lines[startIndex].indent, startIndex + 1, <<>>, o)

(* The while loop of parseArray over the lines of an expanded array.  a is *)
(* what the loop leaves alone: [lines, header, baseIndent, valueIndent, o]; *)
(* idx is currentIndex + 1, values the elements pushed, cur currentObj     *)
(* ([null, es]) and seen the set seenKeys.                                 *)

\* values.push(v) after saving any pending object; the loop goes on at next
ArrayPush(a, next, values, cur, v) ==
    IF ~v.ok THEN v
    ELSE ArrayLoop(a, next, Append(Flush(values, cur), v.v), NullObj, {})

\* currentObj[key] = parseTokenValue(valuePart), in a new object when the
\* key was seen
ArrayField(a, idx, values, cur, seen, key, tv) ==
    IF ~tv.ok THEN tv
    ELSE IF key \in seen
    THEN ArrayLoop(a, idx + 1, Flush(values, cur),
                   [null |-> FALSE, es |-> ObjSet(<<>>, key, tv.v)], {key})
    ELSE ArrayLoop(a, idx + 1, values,
                   [null |-> FALSE, es |-> ObjSet(cur.es, key, tv.v)], seen \cup {key})

\* a line with a colon after its first character: key: value, or key: with
\* the object on the next lines
ArrayKeyValue(a, idx, values, cur, seen, key, valuePart) ==
    IF ~key.ok THEN key
    ELSE IF valuePart = <<>>
    THEN ArrayPush(a, findNextSiblingIndex(a.lines, idx, a.valueIndent), values, cur,
                   parseObject(a.lines, idx, a.valueIndent, a.o))
    ELSE ArrayField(a, idx, values, cur, seen, key.v.v, parseTokenValue(valuePart))

\* content.includes(':'), with colonIndex = findUnquotedColon(content)
ArrayColon(a, idx, values, cur, seen, content, colonIndex) ==
    IF colonIndex > 0
    THEN ArrayKeyValue(a, idx, values, cur, seen,
                       UnquoteKey(Trim(Slice(content, 0, colonIndex))),
                       Trim(SliceFrom(content, colonIndex + 1)))
    ELSE ArrayPush(a, idx + 1, values, cur, parseTokenValue(content))

\* the inline test made again on the header of a nested array
NestedIsInline(line) == Trim(InlineMatch(parseArrayHeader(line).v.rawLine)) # <<>>

\* one element line
ArrayElement(a, idx, values, cur, seen, content) ==
    IF StartsWithHeaderPat(content)
    THEN ArrayPush(a,
                   IF NestedIsInline(a.lines[idx]) THEN idx + 1
                   ELSE findNextSiblingIndex(a.lines, idx, a.valueIndent),
                   values, cur, parseArray(a.lines, idx, a.o))
    ELSE IF Includes(content, ":")
    THEN ArrayColon(a, idx, values, cur, seen, content, findUnquotedColon(content))
    ELSE ArrayPush(a, idx + 1, values, cur, parseTokenValue(content))

ArrayLoop(a, idx, values, cur, seen) ==
    IF idx > Len(a.lines) THEN FinishArray(Flush(values, cur), a.header, a.o)
    ELSE IF a.lines[idx].isEmpty
    THEN IF a.o.strict
         THEN Throw(ToonDecodingError("Blank lines not allowed in arrays",
                                      a.lines[idx].lineNumber))
         ELSE ArrayLoop(a, idx + 1, values, cur, seen)
    ELSE IF a.lines[idx].indent <= a.baseIndent
    THEN FinishArray(Flush(values, cur), a.header, a.o)
    ELSE IF a.lines[idx].indent < a.valueIndent
    THEN Throw(ToonDecodingError("Invalid indentation", a.lines[idx].lineNumber))
    ELSE ArrayElement(a, idx, values, cur, seen, Trim(a.lines[idx].content))

\* the inline array of the values on the header line
InlineArray(header, o, vals) ==
    IF ~vals.ok THEN vals ELSE FinishArray(vals.v, header, o)

\* parseArray after the header is parsed; valuesStr is inlineMatch[1].trim(),
\* <<>> when the expression does not match
ArrayBody(lines, startIndex, o, header, valuesStr) ==
    IF valuesStr # <<>>
    THEN InlineArray(header, o,
                     ParseAllTokens(parseDelimitedTokens(valuesStr, header.delimiter),
                                    <<>>))
    ELSE IF ~header.fields.null
    THEN parseTabularArray(lines, startIndex, header, o)
    ELSE ArrayLoop([lines |-> lines, header |-> header,
                    baseIndent |-> lines[startIndex].indent,
                    valueIndent |-> lines[startIndex].indent + o.indent, o |-> o],
                   startIndex + 1, <<>>, NullObj, {})

ArrayOfHeader(lines, startIndex, o, hr) ==
    IF ~hr.ok THEN hr
    ELSE ArrayBody(lines, startIndex, o, hr.v, Trim(InlineMatch(hr.v.rawLine)))

\* parseArray(lines, startIndex)
parseArray(lines, startIndex, o) ==
    ArrayOfHeader(lines, startIndex, o, parseArrayHeader(lines[startIndex]))

\* content.match(/^(.*?)\[/), for a content that holds a "[": [m, g1]
HeaderPrefixAt(content, p) ==
    IF p > 0 /\ AllDot(SubSeq(content, 1, p - 1))
    THEN [m |-> TRUE, g1 |-> SubSeq(content, 1, p - 1)]
    ELSE [m |-> FALSE, g1 |-> <<>>]
HeaderPrefix(content) == HeaderPrefixAt(content, IndexOf1(content, "["))

(* The while loop of parseObject.  p is what the loop leaves alone:        *)
(* [lines, startIndex, expectedIndent, o]; idx is currentIndex + 1 and obj *)
(* the entries of the object built.                                        *)

\* obj[key] = v, where v is the outcome of parsing the value
ObjectSet(p, next, obj, key, v) ==
    IF ~v.ok THEN v ELSE ObjectLoop(p, next, ObjSet(obj, key, v.v))

\* if (header.key) obj[header.key] = array
ObjectArray(p, idx, obj, key, array) ==
    IF ~array.ok THEN array
    ELSE ObjectLoop(p, findNextSiblingIndex(p.lines, idx, p.expectedIndent),
                    IF ~key.null /\ key.s # <<>> THEN ObjSet(obj, key.s, array.v)
                    ELSE obj)

\* a named array: hr is the outcome of parseArrayHeader(line)
ObjectNamedArray(p, idx, obj, hr) ==
    IF ~hr.ok THEN hr
    ELSE ObjectArray(p, idx, obj, hr.v.key, parseArray(p.lines, idx, p.o))

\* a line holding an array header pattern
ObjectHeaderLine(p, idx, obj, headerMatch) ==
    IF headerMatch.m /\ Trim(headerMatch.g1) # <<>>
    THEN ObjectNamedArray(p, idx, obj, parseArrayHeader(p.lines[idx]))
    ELSE ObjectLoop(p, idx + 1, obj)

\* nextLine && !nextLine.isEmpty && nextLine.indent > line.indent
HasDeeperNext(lines, idx) ==
    /\ idx + 1 <= Len(lines)
    /\ ~lines[idx + 1].isEmpty
    /\ lines[idx + 1].indent > lines[idx].indent

\* "key:" with nothing after the colon
ObjectEmptyValue(p, idx, obj, key) ==
    IF HasDeeperNext(p.lines, idx)
    THEN IF ContainsHeaderPat(Trim(p.lines[idx + 1].content))
         THEN ObjectSet(p, findNextSiblingIndex(p.lines, idx + 1, p.lines[idx].indent),
                        obj, key, parseArray(p.lines, idx + 1, p.o))
         ELSE ObjectSet(p, findNextSiblingIndex(p.lines, idx + 1, p.lines[idx].indent),
                        obj, key,
                        parseObject(p.lines, idx + 1, p.lines[idx].indent + p.o.indent,
                                    p.o))
    ELSE ObjectLoop(p, idx + 1, ObjSet(obj, key, JNull))

ObjectKeyValue(p, idx, obj, key, valuePart) ==
    IF ~key.ok THEN key
    ELSE IF valuePart = <<>> THEN ObjectEmptyValue(p, idx, obj, key.v.v)
    ELSE ObjectSet(p, idx + 1, obj, key.v.v, parseTokenValue(valuePart))

\* a line without array header, with colonIndex = findUnquotedColon(content)
ObjectColon(p, idx, obj, content, colonIndex) ==
    IF colonIndex < 0 THEN ObjectLoop(p, idx + 1, obj)
    ELSE ObjectKeyValue(p, idx, obj,
                        UnquoteKey(Trim(Slice(content, 0, colonIndex))),
                        Trim(SliceFrom(content, colonIndex + 1)))

ObjectLine(p, idx, obj, content) ==
    IF ContainsHeaderPat(content)
    THEN ObjectHeaderLine(p, idx, obj, HeaderPrefix(content))
    ELSE ObjectColon(p, idx, obj, content, findUnquotedColon(content))

ObjectLoop(p, idx, obj) ==
    IF idx > Len(p.lines) THEN Ok(JObj(obj))
    ELSE IF p.lines[idx].isEmpty THEN ObjectLoop(p, idx + 1, obj)
    ELSE IF idx > p.startIndex /\ p.lines[idx].indent < p.expectedIndent
    THEN Ok(JObj(obj))
    ELSE ObjectLine(p, idx, obj, Trim(p.lines[idx].content))

\* parseObject(lines, startIndex, expectedIndent)
parseObject(lines, startIndex, expectedIndent, o) ==
    ObjectLoop([lines |-> lines, startIndex |-> startIndex,
                expectedIndent |-> expectedIndent, o |-> o],
               startIndex, <<>>)

(***************************************************************************)
(* ToonUtils: isIdentifierSegment, isValidKey, keyNeedsQuoting             *)
(***************************************************************************)
IdentStart == Lower \cup Upper \cup {"_"}
IdentChar == IdentStart \cup Digit

\* /^[A-Za-z_][A-Za-z0-9_]*$/.test(segment)
isIdentifierSegment(segment) ==
    /\ segment # <<>>
    /\ segment[1] \in IdentStart
    /\ \A i \in 2..Len(segment) : segment[i] \in IdentChar

\* /^[A-Za-z_][A-Za-z0-9_.]*$/.test(key)
isValidKey(key) ==
    /\ key # <<>>
    /\ key[1] \in IdentStart
    /\ \A i \in 2..Len(key) : key[i] \in IdentChar \cup {"."}

keyNeedsQuoting(key) == ~isValidKey(key)

(***************************************************************************)
(* ToonDecoder: expandPaths, isExpandable, deepSet                         *)
(***************************************************************************)
\* key.split('.')
RECURSIVE SplitOn(_, _, _)
SplitOn(s, c, cur) ==
    IF s = <<>> THEN <<cur>>
    ELSE IF Head(s) = c THEN <<cur>> \o SplitOn(Tail(s), c, <<>>)
    ELSE SplitOn(Tail(s), c, Append(cur, Head(s)))

isExpandable(key) ==
    LET segments == SplitOn(key, ".", <<>>)
    IN \A i \in 1..Len(segments) : isIdentifierSegment(segments[i])

(* deepSet walks from the result object along the path with `in` and with  *)
(* property reads, which also see what an object inherits from             *)
(* Object.prototype.  proto holds the properties added to Object.prototype *)
(* since the process started (its entries, <<>> at the start); every plain *)
(* object the decoder builds has Object.prototype as its prototype.  The   *)
(* object the walk stands on is c = [root, q]: the object at the path q of *)
(* keys below the result object (root "result") or below Object.prototype  *)
(* (root "proto").  The two stores together are h = [es, proto].           *)

\* names Object.prototype defines from the start, all of them functions
BuiltinKeys == {<<"c", "o", "n", "s", "t", "r", "u", "c", "t", "o", "r">>,
                <<"t", "o", "S", "t", "r", "i", "n", "g">>}

\* the entries of the object at the path q below the entries given
RECURSIVE GetAt(_, _)
GetAt(entries, q) ==
    IF q = <<>> THEN entries ELSE GetAt(Get(entries, Head(q)).v, Tail(q))

\* obj[k] = v on the object at the path q below the entries given
RECURSIVE SetAt(_, _, _, _)
SetAt(entries, q, k, v) ==
    IF q = <<>> THEN ObjSet(entries, k, v)
    ELSE ObjSet(entries, Head(q), JObj(SetAt(Get(entries, Head(q)).v, Tail(q), k, v)))

ResultRoot == [root |-> "result", q |-> <<>>]
ObjectPrototype == [root |-> "proto", q |-> <<>>]

\* the own properties of current
OwnAt(h, c) == GetAt(IF c.root = "result" THEN h.es ELSE h.proto, c.q)

\* segment in current
InCurrent(h, c, segment) ==
    \/ HasKey(OwnAt(h, c), segment)
    \/ HasKey(h.proto, segment)
    \/ segment \in BuiltinKeys
    \/ segment = ProtoKey

\* utils.isPlainObject(current[segment]), for a segment in current:
\* __proto__ reads the prototype, which is null for Object.prototype
PlainInCurrent(h, c, segment) ==
    IF HasKey(OwnAt(h, c), segment) THEN isPlainObject(Get(OwnAt(h, c), segment))
    ELSE IF segment = ProtoKey THEN c # ObjectPrototype
    ELSE IF HasKey(h.proto, segment) THEN isPlainObject(Get(h.proto, segment))
    ELSE FALSE

\* current = current[segment], for a plain object current[segment]
Descend(h, c, segment) ==
    IF HasKey(OwnAt(h, c), segment) THEN [c EXCEPT !.q = Append(c.q, segment)]
    ELSE IF segment = ProtoKey THEN ObjectPrototype
    ELSE [root |-> "proto", q |-> <<segment>>]

\* current[segment] = v: an own property of current
Assign(h, c, segment, v) ==
    IF c.root = "result" THEN [h EXCEPT !.es = SetAt(h.es, c.q, segment, v)]
    ELSE [h EXCEPT !.proto = SetAt(h.proto, c.q, segment, v)]

\* Object.prototype.__proto__ = v throws a TypeError for an object v
\* (Object.prototype is an immutable prototype object)
SetsPrototypeOfPrototype(c, segment, v) ==
    c = ObjectPrototype /\ segment = ProtoKey /\ v.t \in {"obj", "arr"}

Returned(h) == [r |-> Ok(h.es), proto |-> h.proto]
Thrown(h, e) == [r |-> Throw(e), proto |-> h.proto]

\* deepSet(obj, path, value) from segment i of path, standing on c
RECURSIVE DeepSetFrom(_, _, _, _, _, _)
DeepSetFrom(h, c, path, i, val, o) ==
    IF i = Len(path)
    THEN IF InCurrent(h, c, path[i]) /\ o.strict
         THEN Thrown(h, ToonDecodingError("Path expansion conflict: duplicate key", 0))
         ELSE IF SetsPrototypeOfPrototype(c, path[i], val)
         THEN Thrown(h, PlainError("TypeError: Immutable prototype object"))
         ELSE Returned(Assign(h, c, path[i], val))
    ELSE IF ~InCurrent(h, c, path[i])
    THEN DeepSetFrom(Assign(h, c, path[i], JObj(<<>>)),
                     [c EXCEPT !.q = Append(c.q, path[i])], path, i + 1, val, o)
    ELSE IF PlainInCurrent(h, c, path[i])
    THEN DeepSetFrom(h, Descend(h, c, path[i]), path, i + 1, val, o)
    ELSE IF o.strict
    THEN Thrown(h, ToonDecodingError("Path expansion conflict: expected object", 0))
    ELSE IF SetsPrototypeOfPrototype(c, path[i], JObj(<<>>))
    THEN Thrown(h, PlainError("TypeError: Immutable prototype object"))
    ELSE DeepSetFrom(Assign(h, c, path[i], JObj(<<>>)),
                     [c EXCEPT !.q = Append(c.q, path[i])], path, i + 1, val, o)

\* deepSet(obj, path, value) on the entries es of obj: [r, proto], r being
\* Ok(the entries of obj afterwards) or the error thrown, proto what
\* Object.prototype holds afterwards
deepSet(es, held, path, val, o) ==
    DeepSetFrom([es |-> es, proto |-> held], ResultRoot, path, 1, val, o)

\* the for loop of expandPaths over the entries of obj from entry i, with
\* the entries acc of result: [r, proto], r being Ok(entries of result) or
\* the error thrown
RECURSIVE ExpandFrom(_, _, _, _, _)
\* the loop goes on with the result set left by deepSet
ExpandSet(es, i, o, set) ==
    IF ~set.r.ok THEN set ELSE ExpandFrom(es, i + 1, set.r.v, set.proto, o)

\* result[key] = this.expandPaths(value)
ExpandInner(es, i, acc, o, inner) ==
    IF ~inner.r.ok THEN inner
    ELSE ExpandFrom(es, i + 1, ObjSet(acc, es[i].k, JObj(inner.r.v)), inner.proto, o)

ExpandFrom(es, i, acc, held, o) ==
    IF i > Len(es) THEN [r |-> Ok(acc), proto |-> held]
    ELSE IF Includes(es[i].k, ".") /\ isExpandable(es[i].k)
    THEN ExpandSet(es, i, o,
                   deepSet(acc, held, SplitOn(es[i].k, ".", <<>>), es[i].v, o))
    ELSE IF isPlainObject(es[i].v)
    THEN ExpandInner(es, i, acc, o, ExpandFrom(es[i].v.v, 1, <<>>, held, o))
    ELSE ExpandFrom(es, i + 1, ObjSet(acc, es[i].k, es[i].v), held, o)

ExpandedObject(x) == IF x.r.ok THEN [x EXCEPT !.r = Ok(JObj(x.r.v))] ELSE x

\* expandPaths(obj): [r, proto], r being Ok(JObj(...)) or the error thrown
expandPaths(obj, held, o) == ExpandedObject(ExpandFrom(obj.v, 1, <<>>, held, o))

(***************************************************************************)
(* ToonDecoder: determineRootForm, decode                                  *)
(***************************************************************************)
determineRootForm(lines) ==
    LET firstLine == Trim(lines[1].content)
    IN IF StartsWithHeaderPat(firstLine) THEN "array"
       ELSE IF Len(lines) = 1 /\ ~Includes(firstLine, ":") THEN "primitive"
       ELSE "object"

\* the end of decode: path expansion of a parsed root object
DecodeResult(o, held, parsed) ==
    IF parsed.ok /\ o.expandPaths = "safe" /\ isPlainObject(parsed.v)
    THEN expandPaths(parsed.v, held, o)
    ELSE [r |-> parsed, proto |-> held]

\* the switch on the root form
DecodeRoot(o, held, nonEmptyLines, rootForm) ==
    IF rootForm = "array" THEN DecodeResult(o, held, parseArray(nonEmptyLines, 1, o))
    ELSE IF rootForm = "primitive"
    THEN DecodeResult(o, held, parseTokenValue(Trim(nonEmptyLines[1].content)))
    ELSE DecodeResult(o, held, parseObject(nonEmptyLines, 1, 0, o))

DecodeNonEmpty(o, held, nonEmptyLines) ==
    IF nonEmptyLines = <<>> THEN [r |-> Ok(JNull), proto |-> held]
    ELSE DecodeRoot(o, held, nonEmptyLines, determineRootForm(nonEmptyLines))

DecodeLines(o, held, pl) ==
    IF ~pl.ok THEN [r |-> pl, proto |-> held]
    ELSE DecodeNonEmpty(o, held, FilterNonEmpty(pl.v))

\* decode(toonText) of a decoder constructed with options o, in a process
\* whose Object.prototype holds held: [r, proto], r being Ok(value) or the
\* error thrown, proto what Object.prototype holds afterwards
decodeOn(toonText, o, held) == DecodeLines(o, held, parseLines(toonText, o))

\* the outcome of decode(toonText) in a process that has not run before
decode(toonText, o) == decodeOn(toonText, o, <<>>).r

(***************************************************************************)
(* ToonUtils: needsQuoting, isArrayOfPrimitives, isUniformArray, indent    *)
(***************************************************************************)
\* /^0\d+$/.test(value)
LeadingZeroDigits(val) ==
    Len(val) >= 2 /\ val[1] = "0" /\ \A i \in 2..Len(val) : val[i] \in Digit

\* needsQuoting without the tests of the reserved literals and of numbers
needsQuotingStructuralOnly(val, activeDelimiter, documentDelimiter, context) ==
    \/ val = <<>>
    \/ val[1] \in WhiteSpace \/ val[Len(val)] \in WhiteSpace
    \/ \E i \in 1..Len(val) : val[i] \in {":", QT, BS, "[", "]", "{", "}"}
    \/ \E i \in 1..Len(val) : val[i] \in {NL, CR, TAB}
    \/ val = <<"-">> \/ (Len(val) >= 2 /\ val[1] = "-" /\ val[2] \notin Digit)
    \/ Includes(val, IF context = "array" THEN activeDelimiter ELSE documentDelimiter)

needsQuoting(val, activeDelimiter, documentDelimiter, context) ==
    \/ val = <<>>
    \/ val[1] \in WhiteSpace \/ val[Len(val)] \in WhiteSpace
    \/ val \in {<<"t", "r", "u", "e">>, <<"f", "a", "l", "s", "e">>, <<"n", "u", "l", "l">>}
    \/ isNumericToken(val)
    \/ LeadingZeroDigits(val)
    \/ \E i \in 1..Len(val) : val[i] \in {":", QT, BS, "[", "]", "{", "}"}
    \/ \E i \in 1..Len(val) : val[i] \in {NL, CR, TAB}
    \/ val = <<"-">> \/ (Len(val) >= 2 /\ val[1] = "-" /\ val[2] \notin Digit)
    \/ Includes(val, IF context = "array" THEN activeDelimiter ELSE documentDelimiter)

\* ' '.repeat(level * size)
RECURSIVE Spaces(_)
Spaces(k) == IF k <= 0 THEN <<>> ELSE <<SP>> \o Spaces(k - 1)
indent(level, size) == Spaces(level * size)

\* null, string, number, boolean or undefined
IsPrimitive(v) == v.t \in {"null", "str", "num", "bool", "undef", "nan"}

isArrayOfPrimitives(arr) == \A i \in 1..Len(arr) : IsPrimitive(arr[i])

\* the UTF-16 code units of the characters, in ascending order
CodeOrder ==
    <<TAB, NL, CR, SP, QT, "+", ",", "-", ".",
      "0", "1", "2", "3", "4", "5", "6", "7", "8", "9", ":",
      "A", "B", "C", "D", "E", "F", "G", "H", "I", "J", "K", "L", "M",
      "N", "O", "P", "Q", "R", "S", "T", "U", "V", "W", "X", "Y", "Z",
      "[", BS, "]", "_",
      "a", "b", "c", "d", "e", "f", "g", "h", "i", "j", "k", "l", "m",
      "n", "o", "p", "q", "r", "s", "t", "u", "v", "w", "x", "y", "z",
      "{", "|", "}">>
Code(c) == CHOOSE i \in 1..Len(CodeOrder) : CodeOrder[i] = c

\* a < b as JavaScript compares strings
RECURSIVE StrLess(_, _)
StrLess(a, b) ==
    IF b = <<>> THEN FALSE
    ELSE IF a = <<>> THEN TRUE
    ELSE IF Head(a) = Head(b) THEN StrLess(Tail(a), Tail(b))
    ELSE Code(Head(a)) < Code(Head(b))

\* keys.sort() of distinct strings
RECURSIVE SortKeys(_)
SortKeys(keys) ==
    IF keys = <<>> THEN <<>>
    ELSE LET m == CHOOSE i \in 1..Len(keys) :
                      \A j \in 1..Len(keys) : j = i \/ StrLess(keys[i], keys[j])
         IN <<keys[m]>> \o SortKeys(SubSeq(keys, 1, m - 1) \o SubSeq(keys, m + 1, Len(keys)))

\* isUniformArray without the test of the first element's key set
isUniformArrayAnyFirstKeys(arr) ==
    /\ arr # <<>>
    /\ \A i \in 1..Len(arr) : isPlainObject(arr[i])
    /\ \A i \in 2..Len(arr) : SortKeys(Keys(arr[i].v)) = SortKeys(Keys(arr[1].v))
    /\ \A i \in 1..Len(arr) : \A j \in 1..Len(arr[i].v) : IsPrimitive(arr[i].v[j].v)

isUniformArray(arr) ==
    /\ arr # <<>>
    /\ \A i \in 1..Len(arr) : isPlainObject(arr[i])
    /\ arr[1].v # <<>>
    /\ \A i \in 2..Len(arr) : SortKeys(Keys(arr[i].v)) = SortKeys(Keys(arr[1].v))
    /\ \A i \in 1..Len(arr) : \A j \in 1..Len(arr[i].v) : IsPrimitive(arr[i].v[j].v)

(***************************************************************************)
(* ToonEncoder.  e is this.options: [indent, delimiter, keyFolding,        *)
(* flattenDepth]; flattenDepth is [inf, n], inf for Infinity.              *)
(* this.documentDelimiter is e.delimiter.  A key argument is [null, s].    *)
(***************************************************************************)
NoKey == [null |-> TRUE, s |-> <<>>]
Key(k) == [null |-> FALSE, s |-> k]

\* normalizeValue(value)
RECURSIVE normalizeValue(_)
normalizeValue(v) ==
    IF v.t \in {"undef", "null", "nan"} THEN JNull
    ELSE IF v.t = "arr" THEN JArr([i \in 1..Len(v.v) |-> normalizeValue(v.v[i])])
    ELSE IF v.t = "obj"
    THEN JObj([i \in 1..Len(v.v) |-> [k |-> v.v[i].k, v |-> normalizeValue(v.v[i].v)]])
    ELSE v

\* utils.keyNeedsQuoting(key) ? `"${utils.escapeString(key)}"` : key
EncodeKey(key) ==
    IF keyNeedsQuoting(key) THEN <<QT>> \o escapeString(key) \o <<QT>> ELSE key

\* key ? (utils.keyNeedsQuoting(key) ? ... : key) : ''
KeyPart(key) == IF key.null \/ key.s = <<>> THEN <<>> ELSE EncodeKey(key.s)

\* delimiter === ',' ? '' : delimiter === '\t' ? '\t' : '|'
DelimiterSym(delimiter) ==
    IF delimiter = "," THEN <<>> ELSE IF delimiter = TAB THEN <<TAB>> ELSE <<"|">>

\* delimiter === ',' ? ', ' : delimiter
JoinSep(delimiter) == IF delimiter = "," THEN <<",", SP>> ELSE <<delimiter>>

\* the text of a number the encoder can write
CanonText(num) == canonicalizeNumber(num).v.v

encodeString(val, delimiter, context, e) ==
    IF needsQuoting(val, delimiter, e.delimiter, context)
    THEN <<QT>> \o escapeString(val) \o <<QT>>
    ELSE val

BoolText(b) == IF b THEN <<"t", "r", "u", "e">> ELSE <<"f", "a", "l", "s", "e">>
NullText == <<"n", "u", "l", "l">>

encodePrimitiveValue(v, delimiter, e) ==
    IF v.t = "null" THEN NullText
    ELSE IF v.t = "bool" THEN BoolText(v.v)
    ELSE IF v.t = "num" THEN CanonText(v.v)
    ELSE IF v.t = "str" THEN encodeString(v.v, delimiter, "array", e)
    ELSE NullText

\* the inline budget of encodePrimitiveArray
InlineBudget == 80

\* `${indentStr}${keyPart}[${arr.length}${delimiterSym}]`
HeaderStart(n, key, depth, e) ==
    indent(depth, e.indent) \o KeyPart(key) \o <<"[">> \o NatToStr(n)
    \o DelimiterSym(e.delimiter) \o <<"]">>

\* the inline line when it is short enough, the expanded form otherwise
\* PrimitiveArrayForm with a line of InlineBudget characters still inline
PrimitiveArrayFormAtMost(header, encodedValues, inlineValues, valueIndentStr) ==
    IF Len(header \o <<SP>> \o inlineValues) <= InlineBudget /\ ~Includes(inlineValues, NL)
    THEN <<header \o <<SP>> \o inlineValues>>
    ELSE <<header>> \o [i \in 1..Len(encodedValues) |-> valueIndentStr \o encodedValues[i]]

PrimitiveArrayForm(header, encodedValues, inlineValues, valueIndentStr) ==
    IF Len(header \o <<SP>> \o inlineValues) < InlineBudget /\ ~Includes(inlineValues, NL)
    THEN <<header \o <<SP>> \o inlineValues>>
    ELSE <<header>> \o [i \in 1..Len(encodedValues) |-> valueIndentStr \o encodedValues[i]]

PrimitiveArrayLines(header, encodedValues, delimiter, valueIndentStr) ==
    PrimitiveArrayForm(header, encodedValues, Join(encodedValues, JoinSep(delimiter)),
                       valueIndentStr)

encodePrimitiveArray(arr, key, depth, e) ==
    PrimitiveArrayLines(HeaderStart(Len(arr), key, depth, e) \o <<":">>,
                        [i \in 1..Len(arr) |-> encodePrimitiveValue(arr[i], e.delimiter, e)],
                        e.delimiter, indent(depth + 1, e.indent))

\* fields.map((field) => this.encodePrimitiveValue(obj[field], delimiter)).join(...)
TabularRowText(obj, fields, e) ==
    Join([i \in 1..Len(fields) |->
             encodePrimitiveValue(Get(obj.v, fields[i]), e.delimiter, e)],
         JoinSep(e.delimiter))

\* the header line and one line per row, for the sorted field names
TabularLines(arr, key, depth, e, fields) ==
    <<HeaderStart(Len(arr), key, depth, e) \o <<"{">>
      \o Join([i \in 1..Len(fields) |-> EncodeKey(fields[i])], JoinSep(e.delimiter))
      \o <<"}", ":">>>>
    \o [i \in 1..Len(arr) |->
           indent(depth + 1, e.indent) \o TabularRowText(arr[i], fields, e)]

\* encodeTabular with the fields in the key order of the first object
encodeTabularUnsorted(arr, key, depth, e) ==
    TabularLines(arr, key, depth, e, Keys(arr[1].v))

encodeTabular(arr, key, depth, e) ==
    TabularLines(arr, key, depth, e, SortKeys(Keys(arr[1].v)))

RECURSIVE Flatten(_)
Flatten(lists) == IF lists = <<>> THEN <<>> ELSE Head(lists) \o Flatten(Tail(lists))

RECURSIVE encodeObject(_, _, _)
RECURSIVE encodeArray(_, _, _, _)

\* the lines of one element of a mixed array
MixedItem(item, depth, e) ==
    IF item.t \in {"null", "bool", "num", "str"}
    THEN <<indent(depth + 1, e.indent) \o encodePrimitiveValue(item, e.delimiter, e)>>
    ELSE IF item.t = "arr" THEN encodeArray(item.v, NoKey, depth + 1, e)
    ELSE IF item.t = "obj" THEN encodeObject(item.v, depth + 1, e)
    ELSE <<indent(depth + 1, e.indent) \o NullText>>

encodeMixedArray(arr, key, depth, e) ==
    <<HeaderStart(Len(arr), key, depth, e) \o <<":">>>>
    \o Flatten([i \in 1..Len(arr) |-> MixedItem(arr[i], depth, e)])

encodeArray(arr, key, depth, e) ==
    IF isUniformArray(arr) THEN encodeTabular(arr, key, depth, e)
    ELSE IF isArrayOfPrimitives(arr) THEN encodePrimitiveArray(arr, key, depth, e)
    ELSE encodeMixedArray(arr, key, depth, e)

\* `${indentStr}${encodedKey}:` followed by rest
EntryLine(key, depth, e, rest) ==
    indent(depth, e.indent) \o EncodeKey(key) \o <<":">> \o rest

\* the text of a primitive property value
EntryText(val, e) ==
    IF val.t = "bool" THEN BoolText(val.v)
    ELSE IF val.t = "num" THEN CanonText(val.v)
    ELSE IF val.t = "str" THEN encodeString(val.v, e.delimiter, "object", e)
    ELSE NullText

\* the lines of one entry of an object
ObjectEntry(en, depth, e) ==
    IF en.v.t = "arr" THEN encodeArray(en.v.v, Key(en.k), depth, e)
    ELSE IF en.v.t = "obj"
    THEN <<EntryLine(en.k, depth, e, <<>>)>> \o encodeObject(en.v.v, depth + 1, e)
    ELSE <<EntryLine(en.k, depth, e, <<SP>> \o EntryText(en.v, e))>>

\* obj is the entries of the object
encodeObject(obj, depth, e) ==
    Flatten([i \in 1..Len(obj) |-> ObjectEntry(obj[i], depth, e)])

\* encodeValue(value, depth) as encode calls it, with no activeDelimiter
encodeValue(v, depth, e) ==
    IF v.t = "null" THEN <<NullText>>
    ELSE IF v.t = "bool" THEN <<BoolText(v.v)>>
    ELSE IF v.t = "num" THEN <<CanonText(v.v)>>
    ELSE IF v.t = "str" THEN <<encodeString(v.v, e.delimiter, "object", e)>>
    ELSE IF v.t = "arr" THEN encodeArray(v.v, NoKey, depth, e)
    ELSE IF v.t = "obj" THEN encodeObject(v.v, depth, e)
    ELSE <<NullText>>

(***************************************************************************)
(* ToonEncoder: foldKeys, extractFoldableChain, isChainSafe, getLeafValue  *)
(***************************************************************************)
\* depth < maxDepth
DepthBelow(depth, maxDepth) == maxDepth.inf \/ depth < maxDepth.n

\* the while loop of extractFoldableChain
RECURSIVE ChainFrom(_, _, _, _)
ChainFrom(chain, current, depth, maxDepth) ==
    IF DepthBelow(depth, maxDepth) /\ isPlainObject(current) /\ Len(current.v) = 1
    THEN ChainFrom(Append(chain, current.v[1].k), current.v[1].v, depth + 1, maxDepth)
    ELSE chain

extractFoldableChain(key, val, maxDepth) == ChainFrom(<<key>>, val, 1, maxDepth)

isChainSafe(chain) == \A i \in 1..Len(chain) : isIdentifierSegment(chain[i])

RECURSIVE getLeafValue(_, _)
getLeafValue(val, depth) ==
    IF depth = 0 THEN val
    ELSE IF ~isPlainObject(val) THEN val
    ELSE IF Len(val.v) # 1 THEN val
    ELSE getLeafValue(val.v[1].v, depth - 1)

\* the for loop of foldKeys over the entries es from entry i, with the
\* entries acc of result
RECURSIVE FoldFrom(_, _, _, _)
\* one entry, with chain its foldable chain
FoldEntry(es, i, acc, e, chain) ==
    IF Len(chain) > 1 /\ isChainSafe(chain)
    THEN FoldFrom(es, i + 1,
                  ObjSet(acc, Join(chain, <<".">>), getLeafValue(es[i].v, Len(chain) - 1)),
                  e)
    ELSE IF isPlainObject(es[i].v)
    THEN FoldFrom(es, i + 1,
                  ObjSet(acc, es[i].k, JObj(FoldFrom(es[i].v.v, 1, <<>>, e))), e)
    ELSE FoldFrom(es, i + 1, ObjSet(acc, es[i].k, es[i].v), e)

FoldFrom(es, i, acc, e) ==
    IF i > Len(es) THEN acc
    ELSE FoldEntry(es, i, acc, e, extractFoldableChain(es[i].k, es[i].v, e.flattenDepth))

foldKeys(obj, e) == JObj(FoldFrom(obj.v, 1, <<>>, e))

(***************************************************************************)
(* ToonEncoder: encode                                                     *)
(***************************************************************************)
\* some number of v makes canonicalizeNumber throw; the encoder
\* canonicalizes every number of the value it walks and catches nothing
RECURSIVE NumberThrows(_)
NumberThrows(v) ==
    IF v.t = "num" THEN ~canonicalizeNumber(v.v).ok
    ELSE IF v.t = "arr" THEN \E i \in 1..Len(v.v) : NumberThrows(v.v[i])
    ELSE IF v.t = "obj" THEN \E i \in 1..Len(v.v) : NumberThrows(v.v[i].v)
    ELSE FALSE

\* encode(value) of an encoder constructed with options e: Ok(JStr(text)) or
\* the error thrown
EncodeFolded(folded, e) ==
    IF NumberThrows(folded)
    THEN Throw(PlainError("RangeError: toFixed() digits argument"))
    ELSE Ok(JStr(Join(encodeValue(folded, 0, e), <<NL>>)))

EncodeNormalized(normalized, e) ==
    IF e.keyFolding = "safe" /\ isPlainObject(normalized)
    THEN EncodeFolded(foldKeys(normalized, e), e)
    ELSE EncodeFolded(normalized, e)

encode(v, e) == EncodeNormalized(normalizeValue(v), e)

(***************************************************************************)
(* Equality of decoded values as the tests compare them (toEqual): object  *)
(* key order is ignored                                                    *)
(***************************************************************************)
RECURSIVE ValEq(_, _)
ValEq(a, b) ==
    IF a.t # b.t THEN FALSE
    ELSE IF a.t = "arr"
    THEN Len(a.v) = Len(b.v) /\ \A i \in 1..Len(a.v) : ValEq(a.v[i], b.v[i])
    ELSE IF a.t = "obj"
    THEN /\ KeySet(a.v) = KeySet(b.v)
         /\ \A i \in 1..Len(a.v) : ValEq(a.v[i].v, Get(b.v, a.v[i].k))
    ELSE a = b

(***************************************************************************)
(* The invocations under study.  Each specification draws the input of one *)
(* invocation and the options of its encoder and decoder, and its actions  *)
(* are the calls made on them.                                             *)
(***************************************************************************)
Infinity == [inf |-> TRUE, n |-> 0]

\* the options of the node's defaults (indent 2, comma, no folding), lax
DefaultOpts ==
    [indent |-> 2, delimiter |-> ",", keyFolding |-> "off", flattenDepth |-> Infinity,
     strict |-> FALSE, expandPaths |-> "off"]

\* all sequences over S of length at most n
SeqsUpTo(S, n) == UNION {[1..k -> S] : k \in 0..n}

Undefined == [t |-> "undef", v |-> <<>>]

\* decoder.decode(text)
Decoded(d) ==
    /\ result' = d.r
    /\ proto' = d.proto
    /\ pc' = "decoded"

Decode ==
    /\ pc = "text"
    /\ Decoded(decodeOn(text, opts, proto))
    /\ UNCHANGED <<opts, value, text, stack>>

(***************************************************************************)
(* escapeString then unescapeString on one string                          *)
(***************************************************************************)
MaxEscLen == 3
EscChars == {"a", "n", BS, QT, NL, CR, TAB}

InitEsc ==
    /\ pc = "value"
    /\ opts = DefaultOpts
    /\ value \in {JStr(s) : s \in SeqsUpTo(EscChars, MaxEscLen)}
    /\ text = <<>>
    /\ result = NoResult
    /\ proto = <<>>
    /\ stack = <<>>

Escape ==
    /\ pc = "value"
    /\ text' = escapeString(value.v)
    /\ pc' = "escaped"
    /\ UNCHANGED <<opts, value, result, proto, stack>>

Unescape ==
    /\ pc = "escaped"
    /\ result' = unescapeString(text)
    /\ pc' = "unescaped"
    /\ UNCHANGED <<opts, value, text, proto, stack>>

NextEsc == Escape \/ Unescape

SpecEsc == InitEsc /\ [][NextEsc]_vars

\* C9: for every string s, unescapeString(escapeString(s)) returns s and
\* does not throw
C9_EscapeRoundTrip ==
    pc = "unescaped" => result.ok /\ result.v = value

\* a string holding a backslash, a quote and a newline has gone through both
\* functions, its escaped text differing from it
C9_Witness ==
    /\ pc = "unescaped"
    /\ value.v = <<BS, QT, NL>>
    /\ text = <<BS, BS, BS, QT, BS, "n">>
    /\ result.ok

(***************************************************************************)
(* canonicalizeNumber on one finite number, and parseToken on its text     *)
(***************************************************************************)
MaxPoint == 22
MaxNegPoint == 8
\* digit strings a double holds exactly as d or d.d
NumDigits == {<<"1">>, <<"5">>, <<"1", "5">>, <<"2", "5">>}
Numbers ==
    {MkNum(neg, ds, n) : neg \in BOOLEAN, ds \in NumDigits, n \in -MaxNegPoint..MaxPoint}
    \cup {Zero, MkNum(TRUE, <<"0">>, 1)}

InitNum ==
    /\ pc = "value"
    /\ opts = DefaultOpts
    /\ value \in {JNum(d) : d \in Numbers}
    /\ text = <<>>
    /\ result = NoResult
    /\ proto = <<>>
    /\ stack = <<>>

\* the string returned, or the error thrown
Canonicalized(r) ==
    /\ text' = IF r.ok THEN r.v.v ELSE <<>>
    /\ result' = r
    /\ pc' = IF r.ok THEN "canonical" ELSE "thrown"

Canonicalize ==
    /\ pc = "value"
    /\ Canonicalized(canonicalizeNumber(value.v))
    /\ UNCHANGED <<opts, value, proto, stack>>

ParseCanonical ==
    /\ pc = "canonical"
    /\ result' = parseTokenValue(text)
    /\ pc' = "parsed"
    /\ UNCHANGED <<opts, value, text, proto, stack>>

NextNum == Canonicalize \/ ParseCanonical

SpecNum == InitNum /\ [][NextNum]_vars

\* C10: for every finite number n, canonicalizeNumber(n) contains no
\* exponent marker, whatever the magnitude of n
C10_NoExponent ==
    pc \in {"canonical", "parsed"} => ~Includes(text, "e") /\ ~Includes(text, "E")

\* the number a text that preserves value parses to: the number itself, 0
\* for negative zero
SameNumber(v) == IF IsZero(v.v) THEN JNum(Zero) ELSE v

\* C11: for every finite number n, the decoder's token parser reads the
\* text canonicalizeNumber(n) as a number equal to n (0 for negative zero)
C11_ValuePreserved ==
    /\ pc # "thrown"
    /\ pc = "parsed" => result.ok /\ result.v = SameNumber(value)

(***************************************************************************)
(* decode on texts whose lines differ in their leading whitespace          *)
(***************************************************************************)
MaxLead == 3
MaxIndentLines == 2
IndentWidths == {2, 3}

\* k spaces, optionally followed by a tab
Leads == {Spaces(k) : k \in 0..MaxLead} \cup {Spaces(k) \o <<TAB>> : k \in 0..MaxLead}
IndentPayloads == {<<"a", ":", SP, "1">>, <<>>}
IndentLines == {l \o p : l \in Leads, p \in IndentPayloads}

\* rawLines.join('\n')
JoinLines(ls) == Join(ls, <<NL>>)

InitIndent ==
    /\ pc = "text"
    /\ \E w \in IndentWidths, s \in BOOLEAN :
          opts = [DefaultOpts EXCEPT !.indent = w, !.strict = s]
    /\ value = Undefined
    /\ \E k \in 1..MaxIndentLines : \E ls \in [1..k -> IndentLines] : text = JoinLines(ls)
    /\ result = NoResult
    /\ proto = <<>>
    /\ stack = <<>>

NextDec == Decode

SpecIndent == InitIndent /\ [][NextDec]_vars

\* the leading whitespace of a line of the text
LeadingWhitespace(line) == SubSeq(line, 1, RunLen(line, {SP, TAB}))
\* the number of spaces a line begins with
LeadingSpaces(line) == RunLen(line, {SP})
RawLines(txt) == SplitLines(txt, <<>>)

\* the lines of the text that have a tab in their leading whitespace
TabLines(txt) ==
    {i \in 1..Len(RawLines(txt)) : Includes(LeadingWhitespace(RawLines(txt)[i]), TAB)}
\* the lines whose leading-space count is not a multiple of the indent width
OddLines(txt, w) ==
    {i \in 1..Len(RawLines(txt)) : LeadingSpaces(RawLines(txt)[i]) % w # 0}
\* the lines that begin with a tab
TabFirstLines(txt) ==
    {i \in 1..Len(RawLines(txt)) : RawLines(txt)[i] # <<>> /\ RawLines(txt)[i][1] = TAB}
Min(S) == CHOOSE x \in S : \A y \in S : x <= y

\* C5: in strict mode, a text one of whose lines has a tab anywhere in its
\* leading whitespace is rejected with a ToonDecodingError carrying the
\* number of such a line
C5_TabAnywhereRejected ==
    (pc = "decoded" /\ opts.strict /\ TabLines(text) # {}) =>
        /\ ~result.ok
        /\ result.err.cls = "ToonDecodingError"
        /\ result.err.line \in TabLines(text)

\* C6 as stated: in strict mode the error carries the number of the first
\* line whose leading-space count is not a multiple of the indent width, and
\* a text all of whose lines are indented by a multiple raises no error of
\* indentation
C6_FirstOddLine ==
    (pc = "decoded" /\ opts.strict) =>
        IF OddLines(text, opts.indent) # {}
        THEN ~result.ok /\ result.err.line = Min(OddLines(text, opts.indent))
        ELSE result.ok

\* C6 amended: in strict mode the error carries the number of the first line
\* that begins with a tab or whose leading-space count is not a multiple of
\* the indent width, and a text without such a line raises no error
C6_FirstOffendingLine ==
    (pc = "decoded" /\ opts.strict) =>
        LET bad == TabFirstLines(text) \cup OddLines(text, opts.indent)
        IN IF bad # {}
           THEN /\ ~result.ok
                /\ result.err.cls = "ToonDecodingError"
                /\ result.err.line = Min(bad)
                /\ result.err.msg = IF Min(bad) \in TabFirstLines(text)
                                    THEN "Tabs not allowed in indentation"
                                    ELSE "Indentation must be multiple"
           ELSE result.ok

\* the second of two lines is indented by three spaces under width 2, the
\* first is well indented, and the error names line 2
C6_Witness ==
    /\ pc = "decoded"
    /\ opts.strict
    /\ opts.indent = 2
    /\ text = <<"a", ":", SP, "1", NL, SP, SP, SP, "a", ":", SP, "1">>
    /\ result = Throw(ToonDecodingError("Indentation must be multiple", 2))

(***************************************************************************)
(* decode on texts holding one array: a header that declares a count,      *)
(* at the root or under the key k of the root object, followed by body     *)
(* lines                                                                   *)
(***************************************************************************)
MaxCount == 2
MaxBody == 3

PrefixLine == <<"x", ":", SP, "1">>
ArrayKeys == {<<>>, <<"k">>}
\* what follows "[N]" on the header line: nothing but the colon (expanded
\* form), a field list (tabular form), or inline values
HeaderTails ==
    {<<":">>,
     <<"{", "a", ",", "b", "}", ":">>,
     <<":", SP, "1">>,
     <<":", SP, "1", ",", SP, "2">>}
BodyLines ==
    {<<SP, SP, "1">>,
     <<SP, SP, "1", ",", SP, "2">>,
     <<SP, SP, "a", ":", SP, "1">>,
     <<SP, SP, "b", ":", SP, "2">>,
     <<>>,
     <<"y", ":", SP, "2">>}

HeaderLine(key, n, tail) == key \o <<"[">> \o NatToStr(n) \o <<"]">> \o tail

ArrayDocs ==
    {pre \o <<HeaderLine(key, n, tail)>> \o body :
        pre \in {<<>>, <<PrefixLine>>}, key \in ArrayKeys, n \in 0..MaxCount,
        tail \in HeaderTails, body \in SeqsUpTo(BodyLines, MaxBody)}

InitArr ==
    /\ pc = "text"
    /\ \E s \in BOOLEAN : opts = [DefaultOpts EXCEPT !.strict = s]
    /\ value = Undefined
    /\ \E ls \in ArrayDocs : (ls[1] = PrefixLine => Len(ls[2]) > 0 /\ ls[2][1] = "k")
                              /\ text = JoinLines(ls)
    /\ result = NoResult
    /\ proto = <<>>
    /\ stack = <<>>

SpecArr == InitArr /\ [][NextDec]_vars

\* the same decoder without strict
Lax(o) == [o EXCEPT !.strict = FALSE]

\* the 1-based number of the header line of the text
HeaderLineNo(txt) == IF RawLines(txt)[1] = PrefixLine THEN 2 ELSE 1
HeaderText(txt) == RawLines(txt)[HeaderLineNo(txt)]
\* the count N between the brackets of the header
DeclaredCount(txt) ==
    LET h == HeaderText(txt)
        open == CHOOSE i \in 1..Len(h) : h[i] = "[" /\ \A j \in 1..(i - 1) : h[j] # "["
        close == CHOOSE i \in 1..Len(h) : h[i] = "]" /\ \A j \in 1..(i - 1) : h[j] # "]"
    IN StrToNat(SubSeq(h, open + 1, close - 1))
IsTabularDoc(txt) == Includes(HeaderText(txt), "{")
IsInlineDoc(txt) == HeaderText(txt)[Len(HeaderText(txt))] # ":"

\* the numbers of the lines of the array's body: the lines after the header
\* that precede the first non-blank line indented no deeper than the header
BodyLineNos(txt) ==
    LET ls == RawLines(txt)
        h == HeaderLineNo(txt)
    IN {i \in (h + 1)..Len(ls) :
            \A j \in (h + 1)..i : ls[j] = <<>> \/ ls[j][1] = SP}
\* the rows or element lines of the body
BodyRowNos(txt) == {i \in BodyLineNos(txt) : RawLines(txt)[i] # <<>>}
\* the blank lines between the header and the last row of the body
BlankInsideNos(txt) ==
    {i \in BodyLineNos(txt) :
        RawLines(txt)[i] = <<>> /\ \E j \in BodyRowNos(txt) : j > i}

\* the array a decoded value holds: the root or the value of key k
ArrayIn(v) == IF v.t = "arr" THEN v ELSE Get(v.v, <<"k">>)

\* C2: in strict mode an inline or expanded array without field list whose
\* header declares N raises the count mismatch with the header's line
\* number when the number of decoded elements (those the lax decoder
\* returns) differs from N, and returns the elements when it equals N
C2_CountChecked ==
    (pc = "decoded" /\ opts.strict /\ ~IsTabularDoc(text)) =>
        LET lax == decode(text, Lax(opts))
        IN /\ lax.ok
           /\ ArrayIn(lax.v).t = "arr"
           /\ IF Len(ArrayIn(lax.v).v) # DeclaredCount(text)
              THEN result = Throw(ToonDecodingError("Array length mismatch",
                                                    HeaderLineNo(text)))
              ELSE result = lax

\* an expanded array under a key on line 2 declares 2 and holds one element:
\* the mismatch names line 2
C2_Witness ==
    /\ pc = "decoded"
    /\ opts.strict
    /\ text = JoinLines(<<PrefixLine, HeaderLine(<<"k">>, 2, <<":">>), <<SP, SP, "1">>>>)
    /\ result = Throw(ToonDecodingError("Array length mismatch", 2))

\* C3: in strict mode a tabular array whose body holds a number of rows
\* other than the declared N is rejected
C3_RowCountChecked ==
    (pc = "decoded" /\ opts.strict /\ IsTabularDoc(text)
        /\ Cardinality(BodyRowNos(text)) # DeclaredCount(text)) => ~result.ok

\* C4: in strict mode a blank line between the header of an array and its
\* last element or row is rejected
C4_BlankInsideRejected ==
    (pc = "decoded" /\ opts.strict /\ ~IsInlineDoc(text) /\ BlankInsideNos(text) # {})
        => ~result.ok

(***************************************************************************)
(* decode on texts of object lines: plain and dotted keys, nesting, quoted *)
(* tokens with escapes, keyed arrays, and lines each strict rule rejects   *)
(***************************************************************************)
MaxObjLines == 3

ObjLines ==
    {<<"a", ":", SP, "1">>,
     <<"a", ".", "b", ":", SP, "1">>,
     <<"a", ".", "c", ":", SP, "2">>,
     <<"a", ":">>,
     <<SP, SP, "b", ":", SP, "1">>,
     <<SP, SP, SP, "b", ":", SP, "1">>,
     <<TAB, "b", ":", SP, "1">>,
     <<"k", "[", "2", "]", ":", SP, "1">>,
     <<"a", ":", SP, QT, BS, "x", QT>>,
     <<QT, BS, "x", QT, ":", SP, "1">>,
     <<"k", "[", "1", "]", "{", QT, BS, "x", QT, "}", ":">>,
     <<"c", ":", SP, QT, BS, "n", QT>>}

InitObj ==
    /\ pc = "text"
    /\ \E s \in BOOLEAN, x \in {"off", "safe"} :
          opts = [DefaultOpts EXCEPT !.strict = s, !.expandPaths = x]
    /\ value = Undefined
    /\ \E k \in 1..MaxObjLines : \E ls \in [1..k -> ObjLines] : text = JoinLines(ls)
    /\ result = NoResult
    /\ proto = <<>>
    /\ stack = <<>>

SpecObj == InitObj /\ [][NextDec]_vars

\* C7: when decode in strict mode returns a value, decode in lax mode with
\* the same indent width and expandPaths setting returns an equal value
C7_StrictRefinesLax ==
    (pc = "decoded" /\ opts.strict /\ result.ok) =>
        LET lax == decode(text, Lax(opts))
        IN lax.ok /\ ValEq(lax.v, result.v)

\* a strict decoder with path expansion has accepted two dotted keys and a
\* keyed array, merging the dotted keys under one object
C7_Witness ==
    /\ pc = "decoded"
    /\ opts.strict
    /\ opts.expandPaths = "safe"
    /\ text = JoinLines(<<<<"a", ".", "b", ":", SP, "1">>,
                          <<"a", ".", "c", ":", SP, "2">>,
                          <<"c", ":", SP, QT, BS, "n", QT>>>>)
    /\ result = Ok(JObj(<<[k |-> <<"a">>,
                           v |-> JObj(<<[k |-> <<"b">>, v |-> JNum(MkNum(FALSE, <<"1">>, 1))],
                                        [k |-> <<"c">>, v |-> JNum(MkNum(FALSE, <<"2">>, 1))]>>)],
                          [k |-> <<"c">>, v |-> JStr(<<NL>>)]>>))

\* C8: every failure of decode is a ToonDecodingError
C8_OnlyToonDecodingErrors ==
    (pc = "decoded" /\ ~result.ok) => result.err.cls = "ToonDecodingError"

(***************************************************************************)
(* encode on one value, then decode on the text it wrote, with the same    *)
(* indent width on both sides, folding and expansion off, strict off       *)
(***************************************************************************)
MaxDepth == 2
MaxWidth == 2

Delimiters == {",", TAB, "|"}
Atoms ==
    {JNull, JBool(TRUE), JNum(MkNum(FALSE, <<"1", "5">>, 1)),
     JStr(<<"a">>), JStr(<<"a", ":", "b">>)}
ObjKeys == <<<<"a">>, <<"b">>>>

\* the objects with values of V under the keys of a subsequence of ObjKeys
ObjectsOver(V) ==
    UNION {{JObj([i \in 1..Len(ks) |-> [k |-> ks[i], v |-> vs[i]]]) :
                vs \in [1..Len(ks) -> V]} :
           ks \in {<<>>, <<ObjKeys[1]>>, <<ObjKeys[2]>>, ObjKeys}}
\* the arrays of at most MaxWidth values of V
ArraysOver(V) == {JArr(vs) : vs \in SeqsUpTo(V, MaxWidth)}

RECURSIVE ValuesOfDepth(_)
ValuesOfDepth(d) ==
    IF d = 0 THEN Atoms
    ELSE Atoms \cup ArraysOver(ValuesOfDepth(d - 1))
               \cup ObjectsOver(ValuesOfDepth(d - 1))

InitRT ==
    /\ pc = "value"
    /\ \E d \in Delimiters : opts = [DefaultOpts EXCEPT !.delimiter = d]
    /\ value \in ValuesOfDepth(MaxDepth)
    /\ text = <<>>
    /\ result = NoResult
    /\ proto = <<>>
    /\ stack = <<>>

\* encoder.encode(value)
\* the text returned, or the error thrown
Encoded(r) ==
    /\ text' = IF r.ok THEN r.v.v ELSE <<>>
    /\ result' = IF r.ok THEN NoResult ELSE r
    /\ pc' = IF r.ok THEN "text" ELSE "thrown"

Encode ==
    /\ pc = "value"
    /\ Encoded(encode(value, opts))
    /\ UNCHANGED <<opts, value, proto, stack>>

NextRT == Encode \/ Decode

SpecRT == InitRT /\ [][NextRT]_vars

\* C1: with folding off, expansion off, strict off and one indent width,
\* decode(encode(V)) returns a value equal to normalize(V), for every
\* delimiter
C1_RoundTrip ==
    pc = "decoded" => result.ok /\ ValEq(result.v, normalizeValue(value))

(***************************************************************************)
(* encode with key folding on one object, then lax decode with path        *)
(* expansion on the text it wrote                                          *)
(***************************************************************************)
MaxFoldDepth == 2
MaxFlatten == 3

FoldKeys == <<<<"a">>, <<"b">>, <<"a", ".", "b">>>>
FoldLeaves == {JNum(MkNum(FALSE, <<"1">>, 1)), JArr(<<JNum(MkNum(FALSE, <<"1">>, 1))>>)}

\* the objects of at most two entries with values of V, their keys taken
\* from FoldKeys in that order
FoldObjectsOver(V) ==
    {JObj(<<>>)}
    \cup {JObj(<<[k |-> FoldKeys[i], v |-> v]>>) : i \in 1..Len(FoldKeys), v \in V}
    \cup {JObj(<<[k |-> FoldKeys[ij[1]], v |-> v], [k |-> FoldKeys[ij[2]], v |-> w]>>) :
              ij \in {x \in (1..Len(FoldKeys)) \X (1..Len(FoldKeys)) : x[1] # x[2]},
              v \in V, w \in V}

RECURSIVE FoldValues(_)
FoldValues(d) ==
    IF d = 0 THEN FoldLeaves ELSE FoldLeaves \cup FoldObjectsOver(FoldValues(d - 1))

\* single-key chains deeper than MaxFoldDepth: {a: {b: {a: v}}}
FoldChains ==
    {JObj(<<[k |-> <<"a">>, v |-> JObj(<<[k |-> <<"b">>, v |-> JObj(<<[k |-> <<"a">>, v |-> v]>>)]>>)]>>) :
        v \in FoldValues(1)}

FlattenDepths == {Infinity} \cup {[inf |-> FALSE, n |-> n] : n \in 1..MaxFlatten}

InitFold ==
    /\ pc = "value"
    /\ \E fd \in FlattenDepths :
          opts = [DefaultOpts EXCEPT !.keyFolding = "safe", !.flattenDepth = fd,
                                     !.expandPaths = "safe"]
    /\ value \in (FoldObjectsOver(FoldValues(MaxFoldDepth - 1)) \cup FoldChains)
    /\ text = <<>>
    /\ result = NoResult
    /\ proto = <<>>
    /\ stack = <<>>

SpecFold == InitFold /\ [][NextRT]_vars

\* C12: with key folding safe on encode (any flatten depth) and path
\* expansion safe on lax decode, decode(encode(V)) equals normalize(V) for
\* every object V, also when V holds keys with a literal dot
C12_FoldExpandLossless ==
    /\ pc # "thrown"
    /\ pc = "decoded" => result.ok /\ ValEq(result.v, normalizeValue(value))

(***************************************************************************)
(* decode on texts all of whose lines are blank                            *)
(***************************************************************************)
MaxBlankLen == 2
MaxBlankLines == 2
BlankChars == {SP, TAB, CR}
BlankLines == SeqsUpTo(BlankChars, MaxBlankLen)

InitBlank ==
    /\ pc = "text"
    /\ \E w \in IndentWidths, s \in BOOLEAN, x \in {"off", "safe"} :
          opts = [DefaultOpts EXCEPT !.indent = w, !.strict = s, !.expandPaths = x]
    /\ value = Undefined
    /\ \E k \in 1..MaxBlankLines : \E ls \in [1..k -> BlankLines] : text = JoinLines(ls)
    /\ result = NoResult
    /\ proto = <<>>
    /\ stack = <<>>

SpecBlank == InitBlank /\ [][NextDec]_vars

\* C13 as stated: decode returns null for every text all of whose lines are
\* blank, under any decoder options
C13_BlankIsNullAnyOptions ==
    pc = "decoded" => result = Ok(JNull)

\* C13 amended: decode returns null for every text all of whose lines are
\* blank, unless the decoder is strict and a line begins with a tab or with
\* a number of spaces that is not a multiple of the indent width; it then
\* throws the indentation error of the first such line
C13_BlankIsNull ==
    pc = "decoded" =>
        LET bad == IF opts.strict
                   THEN TabFirstLines(text) \cup OddLines(text, opts.indent)
                   ELSE {}
        IN IF bad = {} THEN result = Ok(JNull)
           ELSE /\ ~result.ok
                /\ result.err.cls = "ToonDecodingError"
                /\ result.err.line = Min(bad)

\* a strict decoder of width 2 has returned null for a text of two blank
\* lines, one of two spaces and one of a carriage return
C13_Witness ==
    /\ pc = "decoded"
    /\ opts.strict
    /\ opts.indent = 2
    /\ text = <<SP, SP, NL, CR>>
    /\ result = Ok(JNull)

(***************************************************************************)
(* decode on one text given with "\n" line ends, or with every "\n"        *)
(* replaced by "\r\n"                                                      *)
(***************************************************************************)
MaxCrlfLines == 3

CrlfLines ==
    {<<"a", ":", SP, "1">>,
     <<"a", ":", SP, "1", SP>>,
     <<"a", ":">>,
     <<SP, SP, "b", ":", SP, QT, "x", SP, QT>>,
     <<SP, SP, SP, "b", ":", SP, "1">>,
     <<TAB, "b", ":", SP, "1">>,
     <<"k", "[", "2", "]", ":">>,
     <<"k", "[", "2", "]", ":", SP, "1", ",", "2">>,
     <<"[", "1", "]", "{", "a", ",", "b", "}", ":">>,
     <<SP, SP, "1", ",", "2">>,
     <<SP, SP, "x">>,
     <<>>,
     <<SP, SP>>}

\* the text with every "\n" replaced by "\r\n"
RECURSIVE WithCrlf(_)
WithCrlf(txt) ==
    IF txt = <<>> THEN <<>>
    ELSE IF Head(txt) = NL THEN <<CR, NL>> \o WithCrlf(Tail(txt))
    ELSE <<Head(txt)>> \o WithCrlf(Tail(txt))

\* value holds the text t with "\n" line ends, as a string
InitCrlf ==
    /\ pc = "value"
    /\ \E s \in BOOLEAN : opts = [DefaultOpts EXCEPT !.strict = s]
    /\ \E k \in 1..MaxCrlfLines : \E ls \in [1..k -> CrlfLines] :
          value = JStr(JoinLines(ls))
    /\ text = <<>>
    /\ result = NoResult
    /\ proto = <<>>
    /\ stack = <<>>

\* the caller hands t to decode as it is
GiveLf ==
    /\ pc = "value"
    /\ text' = value.v
    /\ pc' = "text"
    /\ UNCHANGED <<opts, value, result, proto, stack>>

\* the caller hands t to decode with "\r\n" line ends
GiveCrlf ==
    /\ pc = "value"
    /\ text' = WithCrlf(value.v)
    /\ pc' = "text"
    /\ UNCHANGED <<opts, value, result, proto, stack>>

NextCrlf == GiveLf \/ GiveCrlf \/ Decode

SpecCrlf == InitCrlf /\ [][NextCrlf]_vars

\* two outcomes are the same: the same value, or an error in both cases
SameOutcome(r1, r2) == IF r1.ok THEN r2.ok /\ r2.v = r1.v ELSE ~r2.ok

\* C14: decoding a text with "\r\n" line ends gives the same outcome as
\* decoding it with "\n" line ends, in strict and in lax mode
C14_LineEndIndependent ==
    pc = "decoded" => SameOutcome(decode(value.v, opts), result)

\* a nested object of two lines was decoded from its text with "\r\n"
C14_Witness ==
    /\ pc = "decoded"
    /\ value.v = <<"a", ":", NL, SP, SP, "b", ":", SP, QT, "x", SP, QT>>
    /\ text = <<"a", ":", CR, NL, SP, SP, "b", ":", SP, QT, "x", SP, QT>>
    /\ result = Ok(JObj(<<[k |-> <<"a">>,
                           v |-> JObj(<<[k |-> <<"b">>, v |-> JStr(<<"x", SP>>)]>>)]>>))

(***************************************************************************)
(* Calls of decode one after the other in one process.  A decoder keeps no *)
(* field between calls (its options are readonly), so what a call can      *)
(* leave behind is what deepSet wrote into objects that outlive the call:  *)
(* Object.prototype, reached through the path segment __proto__.           *)
(***************************************************************************)
CallTexts ==
    {<<"_", "_", "p", "r", "o", "t", "o", "_", "_", ".", "x", ":", SP, "1">>,
     <<"_", "_", "p", "r", "o", "t", "o", "_", "_", ".", "a", ".", "b", ":", SP, "1">>,
     <<"c", "o", "n", "s", "t", "r", "u", "c", "t", "o", "r", ".", "x", ":", SP, "1">>,
     <<"x", ".", "y", ":", SP, "2">>,
     <<"a", ".", "c", ":", SP, "2">>,
     <<"x", ":", SP, "1">>,
     <<"a", ":", SP, "1">>}

InitIndep ==
    /\ pc = "text"
    /\ \E s \in BOOLEAN, x \in {"off", "safe"} :
          opts = [DefaultOpts EXCEPT !.strict = s, !.expandPaths = x]
    /\ value = Undefined
    /\ text \in CallTexts
    /\ result = NoResult
    /\ proto = <<>>
    /\ stack = <<>>

\* the next call in the same process: another text, another decoder
CallAgain ==
    /\ pc = "decoded"
    /\ text' \in CallTexts
    /\ \E s \in BOOLEAN, x \in {"off", "safe"} :
          opts' = [DefaultOpts EXCEPT !.strict = s, !.expandPaths = x]
    /\ result' = NoResult
    /\ pc' = "text"
    /\ UNCHANGED <<value, proto, stack>>

NextIndep == Decode \/ CallAgain

SpecIndep == InitIndep /\ [][NextIndep]_vars

\* C15: whatever was decoded before in the process, a call of decode gives
\* what it gives in a process that decoded nothing before, and leaves
\* nothing behind on Object.prototype
C15_CallsIndependent ==
    pc = "decoded" => result = decode(text, opts) /\ proto = <<>>

(***************************************************************************)
(* encode on one value, then decode on the text it wrote with the same     *)
(* indent width and the same strictness on both sides, for each delimiter  *)
(***************************************************************************)
AcceptWidths == {1, 2, 4}
AcceptAtoms == {JNum(MkNum(FALSE, <<"1">>, 1)), JStr(<<"a">>), JStr(<<"[", "1", "]">>)}

RECURSIVE AcceptValues(_)
AcceptValues(d) ==
    IF d = 0 THEN AcceptAtoms
    ELSE AcceptAtoms \cup ArraysOver(AcceptValues(d - 1))
                     \cup ObjectsOver(AcceptValues(d - 1))

InitAccept ==
    /\ pc = "value"
    /\ \E d \in Delimiters, w \in AcceptWidths, s \in BOOLEAN :
          opts = [DefaultOpts EXCEPT !.delimiter = d, !.indent = w, !.strict = s]
    /\ value \in AcceptValues(MaxDepth)
    /\ text = <<>>
    /\ result = NoResult
    /\ proto = <<>>
    /\ stack = <<>>

SpecAccept == InitAccept /\ [][NextRT]_vars

\* C16: decode raises no error on the text encode wrote, in lax and in
\* strict mode, for every delimiter and indent width
C16_EncodedTextAccepted ==
    pc = "decoded" => result.ok

(***************************************************************************)
(* decode on documents of one non-blank line: a token, quoted or not, with *)
(* no colon outside quotes, alone or next to an empty line                 *)
(***************************************************************************)
MaxTokenLen == 3

QuotedBodies == SeqsUpTo({"a", ":", SP}, MaxTokenLen)
RootTokens ==
    {<<QT>> \o b \o <<QT>> : b \in QuotedBodies}
        \cup (SeqsUpTo({"a", "1"}, MaxTokenLen - 1) \ {<<>>})
        \cup {<<"t", "r", "u", "e">>, <<"n", "u", "l", "l">>}

InitRoot ==
    /\ pc = "text"
    /\ \E s \in BOOLEAN : opts = [DefaultOpts EXCEPT !.strict = s]
    /\ value = Undefined
    /\ \E tok \in RootTokens : text \in {tok, <<NL>> \o tok, tok \o <<NL>>}
    /\ result = NoResult
    /\ proto = <<>>
    /\ stack = <<>>

SpecRoot == InitRoot /\ [][NextDec]_vars

\* the non-blank lines of a text
RECURSIVE NonBlank(_)
NonBlank(ls) ==
    IF ls = <<>> THEN <<>>
    ELSE (IF Trim(Head(ls)) = <<>> THEN <<>> ELSE <<Trim(Head(ls))>>) \o NonBlank(Tail(ls))

\* the document of the one line has decoded to a primitive, and to the
\* string between the quotes when the line is a quoted string without
\* escapes
RootIsToken(line, r) ==
    /\ r.ok
    /\ IsPrimitive(r.v)
    /\ (IsQuoted(line) /\ Len(line) >= 2 /\ ~Includes(Slice1m1(line), QT))
           => r.v = JStr(Slice1m1(line))

\* C17: a document whose only non-blank line has no colon outside double
\* quotes decodes as a primitive; a quoted string with ':' inside the
\* quotes decodes to that string, not to an object
C17_RootPrimitive ==
    (/\ pc = "decoded"
     /\ Len(NonBlank(SplitLines(text, <<>>))) = 1
     /\ findUnquotedColon(NonBlank(SplitLines(text, <<>>))[1]) < 0)
        => RootIsToken(NonBlank(SplitLines(text, <<>>))[1], result)

(***************************************************************************)
(* encode on one object of primitives, primitive arrays and non-empty      *)
(* nested objects, in each entry order, then lax decode on the text        *)
(***************************************************************************)
MaxNestDepth == 2

NestLeaves ==
    {JNum(MkNum(FALSE, <<"1">>, 1)), JStr(<<"x">>), JArr(<<JNum(MkNum(FALSE, <<"1">>, 1))>>)}
NestKeySeqs == {<<<<"a">>>>, <<<<"b">>>>, <<<<"a">>, <<"b">>>>, <<<<"b">>, <<"a">>>>}

\* the non-empty objects with values of V under the keys a, b in each order
NestObjectsOver(V) ==
    UNION {{JObj([i \in 1..Len(ks) |-> [k |-> ks[i], v |-> vs[i]]]) :
                vs \in [1..Len(ks) -> V]} : ks \in NestKeySeqs}

RECURSIVE NestValues(_)
NestValues(d) ==
    IF d = 0 THEN NestLeaves
    ELSE NestLeaves \cup NestObjectsOver(NestValues(d - 1))

InitNest ==
    /\ pc = "value"
    /\ opts = DefaultOpts
    /\ value \in NestObjectsOver(NestValues(MaxNestDepth - 1))
                    \cup {JObj(<<[k |-> <<"a">>, v |-> x]>>) :
                              x \in NestObjectsOver(NestObjectsOver(NestLeaves))}
    /\ text = <<>>
    /\ result = NoResult
    /\ proto = <<>>
    /\ stack = <<>>

SpecNest == InitNest /\ [][NextRT]_vars

\* C18: lax decode(encode(V)) equals V for every object V of primitives,
\* primitive arrays and non-empty nested objects, in any entry order
C18_NestedRoundTrip ==
    /\ pc # "thrown"
    /\ pc = "decoded" => result.ok /\ ValEq(result.v, value)

(***************************************************************************)
(* encode on one array of primitives, primitive arrays and objects with    *)
(* primitive values, then lax decode on the text                           *)
(***************************************************************************)
MaxMixedLen == 3

MixedObjects ==
    {JObj(<<[k |-> <<"a">>, v |-> JNum(MkNum(FALSE, <<"1">>, 1))]>>),
     JObj(<<[k |-> <<"b">>, v |-> JNum(MkNum(FALSE, <<"2">>, 1))]>>),
     JObj(<<[k |-> <<"a">>, v |-> JStr(<<"x">>)],
            [k |-> <<"b">>, v |-> JNum(MkNum(FALSE, <<"2">>, 1))]>>)}
MixedElements ==
    MixedObjects \cup {JNum(MkNum(FALSE, <<"1">>, 1)), JStr(<<"x">>),
                       JArr(<<JNum(MkNum(FALSE, <<"1">>, 1))>>)}

InitMixed ==
    /\ pc = "value"
    /\ opts = DefaultOpts
    /\ \E es \in SeqsUpTo(MixedElements, MaxMixedLen) : value = JArr(es)
    /\ text = <<>>
    /\ result = NoResult
    /\ proto = <<>>
    /\ stack = <<>>

SpecMixed == InitMixed /\ [][NextRT]_vars

\* the encoder writes the array in mixed form and it holds an object
MixedWithObject(arr) ==
    /\ ~isUniformArray(arr)
    /\ \E i \in 1..Len(arr) : isPlainObject(arr[i])

\* C19: lax decode of an array written in mixed form gives one element per
\* encoded element, each object equal to the original one
C19_MixedElementsKept ==
    (pc = "decoded" /\ MixedWithObject(value.v))
        => /\ result.ok
           /\ result.v.t = "arr"
           /\ Len(result.v.v) = Len(value.v)
           /\ \A i \in 1..Len(value.v) :
                 isPlainObject(value.v[i]) => ValEq(result.v.v[i], value.v[i])

(***************************************************************************)
(* encode on one object of one entry, its key any short string over the    *)
(* characters that have a meaning in the notation, then lax decode         *)
(***************************************************************************)
MaxKeyLen == 3

KeyChars == {"a", "1", ":", QT, "[", "]", "{", "}", SP, ","}
KeyValues ==
    {JNum(MkNum(FALSE, <<"1">>, 1)), JStr(<<"x">>), JArr(<<JNum(MkNum(FALSE, <<"1">>, 1))>>)}

InitKey ==
    /\ pc = "value"
    /\ opts = DefaultOpts
    /\ \E key \in SeqsUpTo(KeyChars, MaxKeyLen), val \in KeyValues :
          value = JObj(<<[k |-> key, v |-> val]>>)
    /\ text = <<>>
    /\ result = NoResult
    /\ proto = <<>>
    /\ stack = <<>>

SpecKey == InitKey /\ [][NextRT]_vars

\* C20: lax decode(encode({k: v})) equals {k: v} for every string key k
\* and every primitive or primitive-array value v
C20_KeyRoundTrip ==
    /\ pc # "thrown"
    /\ pc = "decoded" => result.ok /\ ValEq(result.v, value)

(***************************************************************************)
(* Conflicts of path expansion, on the documents of SpecObj                *)
(***************************************************************************)
\* the path a key of the decoded object stands for under expandPaths
PathOf(key) ==
    IF Includes(key, ".") /\ isExpandable(key) THEN SplitOn(key, ".", <<>>) ELSE <<key>>

IsProperPrefix(p, q) == Len(p) < Len(q) /\ SubSeq(q, 1, Len(p)) = p

\* two entries of one object of which one writes a primitive where the
\* other needs an object
LeafBranchConflict(es) ==
    \E i, j \in 1..Len(es) :
        /\ i # j
        /\ IsPrimitive(es[i].v)
        /\ IsProperPrefix(PathOf(es[i].k), PathOf(es[j].k))

\* the object decode has parsed before it expands the paths
Unexpanded(txt, o) == decode(txt, [o EXCEPT !.expandPaths = "off"])

ConflictInText(txt, o) ==
    /\ Unexpanded(txt, o).ok
    /\ isPlainObject(Unexpanded(txt, o).v)
    /\ LeafBranchConflict(Unexpanded(txt, o).v.v)

\* C21: with expandPaths safe in strict mode decode raises an error when
\* two keys of the object conflict after expansion, in whatever order they
\* stand in the text
C21_ConflictsRaise ==
    (pc = "decoded" /\ opts.strict /\ opts.expandPaths = "safe" /\ ConflictInText(text, opts))
        => ~result.ok

(***************************************************************************)
(* The leaves an object represents: the values that are not non-empty      *)
(* objects, each under the keys on its way joined with dots                *)
(***************************************************************************)
DottedUnder(prefix, key) == IF prefix = <<>> THEN key ELSE prefix \o <<".">> \o key

RECURSIVE LeavesUnder(_, _)
LeavesUnder(v, prefix) ==
    IF isPlainObject(v) /\ v.v # <<>>
    THEN UNION {LeavesUnder(v.v[i].v, DottedUnder(prefix, v.v[i].k)) : i \in 1..Len(v.v)}
    ELSE {[path |-> prefix, leaf |-> v]}

RECURSIVE LeafCount(_)
RECURSIVE LeafCountFrom(_, _)
LeafCountFrom(es, i) ==
    IF i > Len(es) THEN 0 ELSE LeafCount(es[i].v) + LeafCountFrom(es, i + 1)
LeafCount(v) ==
    IF isPlainObject(v) /\ v.v # <<>> THEN LeafCountFrom(v.v, 1) ELSE 1

SameLeaves(folded, obj) ==
    /\ LeafCount(folded) = LeafCount(obj)
    /\ LeavesUnder(folded, <<>>) = LeavesUnder(obj, <<>>)

\* C22: the object foldKeys returns for key folding safe holds every leaf
\* of the input exactly once, under the same dotted path
C22_FoldKeepsLeaves ==
    (pc = "text" /\ opts.keyFolding = "safe")
        => SameLeaves(foldKeys(normalizeValue(value), opts), value)

(***************************************************************************)
(* encode on one array of objects and primitives, the objects with their   *)
(* keys in either order, then lax decode on the text                       *)
(***************************************************************************)
MaxTabLen == 2

TabValues ==
    {JNull, JStr(<<"x">>), JArr(<<JNum(MkNum(FALSE, <<"1">>, 1))>>)}
TabKeySeqs ==
    {<<>>, <<<<"a">>>>, <<<<"b">>>>, <<<<"a">>, <<"b">>>>, <<<<"b">>, <<"a">>>>}
TabElements ==
    UNION {{JObj([i \in 1..Len(ks) |-> [k |-> ks[i], v |-> vs[i]]]) :
                vs \in [1..Len(ks) -> TabValues]} : ks \in TabKeySeqs}
        \cup {JBool(TRUE), JStr(<<"x">>)}

InitTab ==
    /\ pc = "value"
    /\ \E d \in Delimiters : opts = [DefaultOpts EXCEPT !.delimiter = d]
    /\ \E es \in SeqsUpTo(TabElements, MaxTabLen) : value = JArr(es)
    /\ text = <<>>
    /\ result = NoResult
    /\ proto = <<>>
    /\ stack = <<>>

SpecTab == InitTab /\ [][NextRT]_vars

\* the lines are a header with a field list and one row per element
TabularLinesOf(ls, n) ==
    /\ Includes(ls[1], "{")
    /\ Len(ls[1]) >= 2
    /\ SubSeq(ls[1], Len(ls[1]) - 1, Len(ls[1])) = <<"}", ":">>
    /\ Len(ls) = n + 1

EmittedTabular(txt, arr) == TabularLinesOf(SplitLines(txt, <<>>), Len(arr))

\* non-empty, every element an object with a key, one key set, every
\* value null, a boolean, a number or a string
TabularShape(arr) ==
    /\ arr # <<>>
    /\ \A i \in 1..Len(arr) :
          /\ arr[i].t = "obj"
          /\ arr[i].v # <<>>
          /\ KeySet(arr[i].v) = KeySet(arr[1].v)
          /\ \A j \in 1..Len(arr[i].v) : arr[i].v[j].v.t \in {"null", "bool", "num", "str"}

\* C23: the encoder writes an array in tabular form exactly when it is
\* non-empty, all its elements are objects with one non-empty key set and
\* all their values are primitives
C23_TabularIff ==
    pc = "text" => (EmittedTabular(text, value.v) <=> TabularShape(value.v))

\* a two-row table was written for two objects with keys in different order
C23_Witness ==
    /\ pc = "text"
    /\ Len(value.v) = 2
    /\ EmittedTabular(text, value.v)
    /\ isPlainObject(value.v[1]) /\ Keys(value.v[1].v) = <<<<"b">>, <<"a">>>>
    /\ isPlainObject(value.v[2]) /\ Keys(value.v[2].v) = <<<<"a">>, <<"b">>>>

\* the values of a row are the values of the object for the fields in order
RowInOrder(vals, fields, obj) ==
    /\ vals.ok
    /\ Len(vals.v) = Len(fields)
    /\ \A j \in 1..Len(fields) : vals.v[j] = Get(obj.v, fields[j])

\* the fields of the header are the keys in ascending order, and each row
\* holds the values of its element in that order
FieldsInOrder(fields, ls, arr, d) ==
    /\ Len(ls) = Len(arr) + 1
    /\ Len(fields) = Len(arr[1].v)
    /\ {fields[i] : i \in 1..Len(fields)} = KeySet(arr[1].v)
    /\ \A i \in 1..(Len(fields) - 1) : StrLess(fields[i], fields[i + 1])
    /\ \A r \in 1..Len(arr) :
          RowInOrder(ParseAllTokens(parseDelimitedTokens(ls[r + 1], d), <<>>), fields, arr[r])

TableInOrder(ls, arr, d) ==
    FieldsInOrder(parseDelimitedTokens(HeaderRegex(ls[1]).fieldsPart, d), ls, arr, d)

MaxElems == 8
MinElemLen == 8
MaxElemLen == 11
MaxFirstLen == 12

\* the string of n letters a
LettersA(n) == [i \in 1..n |-> "a"]

\* k strings, the first of l1 letters and the others of l letters
StringArray(k, l1, l) == JArr([i \in 1..k |-> JStr(LettersA(IF i = 1 THEN l1 ELSE l))])

Placed(arr) ==
    {arr, JObj(<<[k |-> <<"k">>, v |-> arr]>>),
     JObj(<<[k |-> <<"o">>, v |-> JObj(<<[k |-> <<"k">>, v |-> arr]>>)]>>)}

InitInline ==
    /\ pc = "value"
    /\ \E d \in Delimiters, w \in IndentWidths :
          opts = [DefaultOpts EXCEPT !.delimiter = d, !.indent = w]
    /\ \E k \in 1..MaxElems, l1 \in 1..MaxFirstLen, l \in MinElemLen..MaxElemLen :
          value \in Placed(StringArray(k, l1, l))
    /\ text = <<>>
    /\ result = NoResult
    /\ proto = <<>>
    /\ stack = <<>>

\* the encoder alone
NextEnc == Encode

SpecInline == InitInline /\ [][NextEnc]_vars

\* where the array of a value of InitInline stands: the array, its key,
\* its depth, and the number of lines written before its header
PlaceOf(v) ==
    IF v.t = "arr" THEN [arr |-> v.v, key |-> <<>>, depth |-> 0, before |-> 0]
    ELSE IF v.v[1].v.t = "arr"
    THEN [arr |-> v.v[1].v.v, key |-> <<"k">>, depth |-> 0, before |-> 0]
    ELSE [arr |-> v.v[1].v.v[1].v.v, key |-> <<"k">>, depth |-> 1, before |-> 1]

\* the header of the array: indentation, key, [N] with the delimiter
\* symbol for tab and pipe, and the colon
ExpectedHeader(p, o) ==
    Spaces(p.depth * o.indent) \o p.key \o <<"[">> \o NatToStr(Len(p.arr))
    \o (IF o.delimiter = "," THEN <<>> ELSE <<o.delimiter>>) \o <<"]", ":">>

\* the elements joined by ", " for comma and by the delimiter otherwise
ExpectedJoined(p, o) ==
    Join([i \in 1..Len(p.arr) |-> p.arr[i].v],
         IF o.delimiter = "," THEN <<",", SP>> ELSE <<o.delimiter>>)

ExpectedInline(p, o) == ExpectedHeader(p, o) \o <<SP>> \o ExpectedJoined(p, o)

ExpectedExpanded(p, o) ==
    <<ExpectedHeader(p, o)>>
    \o [i \in 1..Len(p.arr) |-> Spaces((p.depth + 1) * o.indent) \o p.arr[i].v]

\* the lines written before the header of the array
LinesBefore(p) == IF p.before = 0 THEN <<>> ELSE <<<<"o", ":">>>>

\* C25: a non-empty array of primitives is written on one line exactly
\* when that line, indentation and header included, is shorter than 80
\* characters, and else as a header and one element per line at depth d+1
C25_InlineBudget ==
    pc = "text"
        => text = JoinLines(LinesBefore(PlaceOf(value))
                            \o (IF Len(ExpectedInline(PlaceOf(value), opts)) < 80
                                THEN <<ExpectedInline(PlaceOf(value), opts)>>
                                ELSE ExpectedExpanded(PlaceOf(value), opts)))

\* an array whose inline line has exactly 80 characters was written in
\* expanded form
C25_Witness ==
    /\ pc = "text"
    /\ Len(ExpectedInline(PlaceOf(value), opts)) = 80
    /\ text = JoinLines(LinesBefore(PlaceOf(value)) \o ExpectedExpanded(PlaceOf(value), opts))

\* an array whose inline line has 79 characters was written on one line
C25_WitnessInline ==
    /\ pc = "text"
    /\ Len(ExpectedInline(PlaceOf(value), opts)) = 79
    /\ text = JoinLines(LinesBefore(PlaceOf(value)) \o <<ExpectedInline(PlaceOf(value), opts)>>)

(***************************************************************************)
(* encode on values that hold an empty array at the root, as the value of  *)
(* a key and as an element of an array, then decode on the text, lax and   *)
(* strict.  Each value stands with the lines expected for indent width 2,  *)
(* "#" marking the place of the delimiter symbol of a header.              *)
(***************************************************************************)
EmptyArrayCases ==
    {[v |-> JArr(<<>>),
      lines |-> <<<<"[", "0", "#", "]", ":", SP>>>>],
     [v |-> JObj(<<[k |-> <<"a">>, v |-> JArr(<<>>)]>>),
      lines |-> <<<<"a", "[", "0", "#", "]", ":", SP>>>>],
     [v |-> JObj(<<[k |-> <<"a">>, v |-> JArr(<<>>)], [k |-> <<"b">>, v |-> JNum(MkNum(FALSE, <<"1">>, 1))]>>),
      lines |-> <<<<"a", "[", "0", "#", "]", ":", SP>>, <<"b", ":", SP, "1">>>>],
     [v |-> JObj(<<[k |-> <<"b">>, v |-> JNum(MkNum(FALSE, <<"1">>, 1))], [k |-> <<"a">>, v |-> JArr(<<>>)]>>),
      lines |-> <<<<"b", ":", SP, "1">>, <<"a", "[", "0", "#", "]", ":", SP>>>>],
     [v |-> JObj(<<[k |-> <<"a">>, v |-> JObj(<<[k |-> <<"b">>, v |-> JArr(<<>>)]>>)]>>),
      lines |-> <<<<"a", ":">>, <<SP, SP, "b", "[", "0", "#", "]", ":", SP>>>>],
     [v |-> JObj(<<[k |-> <<"b">>, v |-> JObj(<<[k |-> <<"c">>, v |-> JNum(MkNum(FALSE, <<"1">>, 1))], [k |-> <<"a">>, v |-> JArr(<<>>)]>>)]>>),
      lines |-> <<<<"b", ":">>, <<SP, SP, "c", ":", SP, "1">>, <<SP, SP, "a", "[", "0", "#", "]", ":", SP>>>>],
     [v |-> JArr(<<JArr(<<>>)>>),
      lines |-> <<<<"[", "1", "#", "]", ":">>, <<SP, SP, "[", "0", "#", "]", ":", SP>>>>],
     [v |-> JArr(<<JArr(<<>>), JNum(MkNum(FALSE, <<"1">>, 1))>>),
      lines |-> <<<<"[", "2", "#", "]", ":">>, <<SP, SP, "[", "0", "#", "]", ":", SP>>, <<SP, SP, "1">>>>],
     [v |-> JArr(<<JNum(MkNum(FALSE, <<"1">>, 1)), JArr(<<>>)>>),
      lines |-> <<<<"[", "2", "#", "]", ":">>, <<SP, SP, "1">>, <<SP, SP, "[", "0", "#", "]", ":", SP>>>>],
     [v |-> JArr(<<JArr(<<>>), JArr(<<>>)>>),
      lines |-> <<<<"[", "2", "#", "]", ":">>, <<SP, SP, "[", "0", "#", "]", ":", SP>>, <<SP, SP, "[", "0", "#", "]", ":", SP>>>>]}

InitEmpty ==
    /\ pc = "value"
    /\ \E d \in Delimiters, s \in BOOLEAN :
          opts = [DefaultOpts EXCEPT !.delimiter = d, !.strict = s]
    /\ \E c \in EmptyArrayCases : value = c.v
    /\ text = <<>>
    /\ result = NoResult
    /\ proto = <<>>
    /\ stack = <<>>

SpecEmpty == InitEmpty /\ [][NextRT]_vars

\* the expected lines of the value, with the delimiter symbol in the headers
LinesFor(v, d) ==
    LET c == CHOOSE x \in EmptyArrayCases : x.v = v
    IN [i \in 1..Len(c.lines) |->
           ReplaceAll(c.lines[i], "#", IF d = "," THEN <<>> ELSE <<d>>)]

\* C26: an array of length 0 is written as the one inline line key[0]: at
\* the root, as an object value and as an array element, and decoding the
\* text gives the value back with the empty array in its place, lax and
\* strict
C26_EmptyArrays ==
    /\ pc = "text" => text = JoinLines(LinesFor(value, opts.delimiter))
    /\ pc = "decoded" => result = Ok(value)

(***************************************************************************)
(* The scope of the root object, on the documents of SpecObj               *)
(***************************************************************************)
\* the key a line of SpecObj writes: what stands before its first ":" or "["
KeyEnd(line) == CHOOSE i \in 1..Len(line) :
                    /\ line[i] \in {":", "["}
                    /\ \A j \in 1..(i - 1) : line[j] \notin {":", "["}
KeyOfLine(line) == Trim(SubSeq(line, 1, KeyEnd(line) - 1))

\* the keys of the non-blank lines of the text whose indent is 0
KeysAtIndentZero(txt) ==
    {KeyOfLine(SplitLines(txt, <<>>)[i]) :
        i \in {j \in 1..Len(SplitLines(txt, <<>>)) :
                   /\ Trim(SplitLines(txt, <<>>)[j]) # <<>>
                   /\ SplitLines(txt, <<>>)[j][1] # SP}}

\* C27: only the lines whose indent equals the expected indent of an
\* object give it entries; a deeper line after an entry with an inline
\* value adds no key to it
C27_ObjectScope ==
    (/\ pc = "decoded" /\ opts.expandPaths = "off"
     /\ text # <<>> /\ text[1] \notin {SP, TAB, NL}
     /\ result.ok /\ isPlainObject(result.v))
        => KeySet(result.v.v) \subseteq KeysAtIndentZero(text)

(***************************************************************************)
(* The tokenizer on the join of array tokens as the encoder writes them:   *)
(* the values are drawn, their tokens joined with the separator of the     *)
(* delimiter, and the line tokenized                                       *)
(***************************************************************************)
MaxSide == 1
MaxStrLen == 2

TokenChars == {"a", ",", SP, QT, BS, TAB, "|"}
TokenValues ==
    {JStr(str) : str \in SeqsUpTo(TokenChars, MaxStrLen)}
        \cup {JNull, JBool(TRUE), JNum(MkNum(FALSE, <<"1", "5">>, 1))}
\* the values that stand before and after the one drawn from TokenValues
SideValues ==
    {JStr(<<"a">>), JStr(<<"a", ",", SP, "|">>), JStr(<<QT, BS>>)}

InitTok ==
    /\ pc = "value"
    /\ \E d \in Delimiters : opts = [DefaultOpts EXCEPT !.delimiter = d]
    /\ \E before \in SeqsUpTo(SideValues, MaxSide), mid \in TokenValues,
          after \in SeqsUpTo(SideValues, MaxSide) :
              value = JArr(before \o <<mid>> \o after)
    /\ text = <<>>
    /\ result = NoResult
    /\ proto = <<>>
    /\ stack = <<>>

\* the tokens of the values as encodePrimitiveValue writes them
EncodedTokens(arr, e) == [i \in 1..Len(arr) |-> encodePrimitiveValue(arr[i], e.delimiter, e)]

\* encodedValues.join(delimiter === ',' ? ', ' : delimiter)
JoinTokens ==
    /\ pc = "value"
    /\ text' = Join(EncodedTokens(value.v, opts), JoinSep(opts.delimiter))
    /\ pc' = "text"
    /\ UNCHANGED <<opts, value, result, proto, stack>>

\* this.parseDelimitedTokens(text, delimiter)
Tokenize ==
    /\ pc = "text"
    /\ result' = Ok(JArr(parseDelimitedTokens(text, opts.delimiter)))
    /\ pc' = "tokens"
    /\ UNCHANGED <<opts, value, text, proto, stack>>

NextTok == JoinTokens \/ Tokenize

SpecTok == InitTok /\ [][NextTok]_vars

\* C28: tokenizing the join of encoded tokens returns exactly those
\* tokens, in order, for every delimiter
C28_TokenizeInvertsJoin ==
    pc = "tokens" => result.v.v = EncodedTokens(value.v, opts)

\* a quoted token that holds the delimiter and an escaped quote came back
\* as one token, before an unquoted one
C28_Witness ==
    /\ pc = "tokens"
    /\ opts.delimiter = ","
    /\ value = JArr(<<JStr(<<",", QT>>), JStr(<<"a">>)>>)
    /\ text = <<QT, ",", BS, QT, QT, ",", SP, "a">>
    /\ result.v.v = <<<<QT, ",", BS, QT, QT>>, <<"a">>>>

(***************************************************************************)
(* Token-level round trip of strings: encodeString, then parseTokenValue   *)
(***************************************************************************)
MaxQuoteLen == 3
QuoteChars == {"a", "e", "0", "1", "-", ".", SP, TAB, NL, QT, BS, ":", ",", "|"}
ReservedWords ==
    {<<"t", "r", "u", "e">>, <<"f", "a", "l", "s", "e">>, <<"n", "u", "l", "l">>,
     <<"-", "1", ".", "5", "e", "1">>, <<"0", "0", "1", "0">>}
QuoteStrings == SeqsUpTo(QuoteChars, MaxQuoteLen) \cup ReservedWords

InitQuote ==
    /\ pc = "value"
    /\ \E d \in Delimiters : opts = [DefaultOpts EXCEPT !.delimiter = d]
    /\ \E s \in QuoteStrings : value = JStr(s)
    /\ text = <<>>
    /\ result = NoResult
    /\ proto = <<>>
    /\ stack = <<>>

\* encodeString(value, delimiter, 'array'), delimiter the active one
EncodeInArray ==
    /\ pc = "value"
    /\ \E d \in Delimiters : text' = encodeString(value.v, d, "array", opts)
    /\ pc' = "array"
    /\ UNCHANGED <<opts, value, result, proto, stack>>

\* encodeString(value, delimiter, 'object')
EncodeInObject ==
    /\ pc = "value"
    /\ \E d \in Delimiters : text' = encodeString(value.v, d, "object", opts)
    /\ pc' = "object"
    /\ UNCHANGED <<opts, value, result, proto, stack>>

\* parseTokenValue(token)
ParseTokenValue ==
    /\ pc \in {"array", "object"}
    /\ result' = parseTokenValue(text)
    /\ pc' = "parsed"
    /\ UNCHANGED <<opts, value, text, proto, stack>>

NextQuote == EncodeInArray \/ EncodeInObject \/ ParseTokenValue
SpecQuote == InitQuote /\ [][NextQuote]_vars

\* C29: the token encodeString produces for a string s, in the array and
\* the object context and for every delimiter, is parsed by parseTokenValue
\* to the string s itself.
C29_TokenRoundTrip == pc = "parsed" => result = Ok(value)

\* a string that reads as a number when bare was quoted and came back a string
C29_Witness ==
    /\ pc = "parsed"
    /\ value = JStr(<<"-", "1", ".", "5", "e", "1">>)
    /\ text[1] = QT
    /\ result = Ok(value)

\* a string left unquoted came back as itself
C29_WitnessBare ==
    /\ pc = "parsed"
    /\ value = JStr(<<"a", "-", "1">>)
    /\ text = value.v
    /\ result = Ok(value)

(***************************************************************************)
(* decode step by step: one action for the test of the condition of a      *)
(* while loop of parseObject, parseArray and parseTabularArray, and one    *)
(* for the body of each loop.                                              *)
(* stack holds one frame per call in progress, with the locals of the      *)
(* call: fn, lines, startIndex, idx (currentIndex + 1), baseIndent,        *)
(* expectedIndent (valueIndent in parseArray), header, acc (obj, values or *)
(* rows), cur (currentObj), seen (seenKeys) and key, the key under which   *)
(* parseObject stores the value of the call it is waiting for.             *)
(* A machine state is [stack, out]: the stack is empty when decode's       *)
(* parsing has ended, and out is then the value parsed or the error.       *)
(***************************************************************************)
Running(stk) == [stack |-> stk, out |-> NoResult]
Finished(out) == [stack |-> <<>>, out |-> out]

ObjectFrame(lines, startIndex, expectedIndent) ==
    [fn |-> "object", lines |-> lines, startIndex |-> startIndex, idx |-> startIndex, baseIndent |-> 0,
     expectedIndent |-> expectedIndent, header |-> <<>>, acc |-> <<>>,
     cur |-> NullObj, seen |-> {}, key |-> NoKey]

ArrayFrame(fn, lines, startIndex, header, o) ==
    [fn |-> fn, lines |-> lines, startIndex |-> startIndex, idx |-> startIndex + 1,
     baseIndent |-> lines[startIndex].indent,
     expectedIndent |-> lines[startIndex].indent + o.indent, header |-> header,
     acc |-> <<>>, cur |-> NullObj, seen |-> {}, key |-> NoKey]

\* the caller takes the value of the call it made: values.push(v) in
\* parseArray, obj[key] = v in parseObject
Receive(f, v) ==
    IF f.fn = "array" THEN [f EXCEPT !.acc = Append(@, v)]
    ELSE IF f.key.null THEN f
    ELSE [f EXCEPT !.acc = ObjSet(@, f.key.s, v), !.key = NoKey]

\* a call ends with the outcome out, callers being the calls around it: an
\* error ends them all, a value goes to the innermost of them
Return(callers, out) ==
    IF ~out.ok \/ callers = <<>> THEN Finished(out)
    ELSE Running(Append(SubSeq(callers, 1, Len(callers) - 1),
                        Receive(callers[Len(callers)], out.v)))

\* this.parseArray(lines, startIndex) up to its while loop
CallArrayBody(callers, lines, startIndex, o, header, valuesStr) ==
    IF valuesStr # <<>>
    THEN Return(callers,
                InlineArray(header, o,
                            ParseAllTokens(parseDelimitedTokens(valuesStr,
                                                                header.delimiter),
                                           <<>>)))
    ELSE IF ~header.fields.null
    THEN Running(Append(callers, ArrayFrame("tabular", lines, startIndex, header, o)))
    ELSE Running(Append(callers, ArrayFrame("array", lines, startIndex, header, o)))

CallArrayOfHeader(callers, lines, startIndex, o, hr) ==
    IF ~hr.ok THEN Finished(hr)
    ELSE CallArrayBody(callers, lines, startIndex, o, hr.v,
                       Trim(InlineMatch(hr.v.rawLine)))

CallArray(callers, lines, startIndex, o) ==
    CallArrayOfHeader(callers, lines, startIndex, o, parseArrayHeader(lines[startIndex]))

\* the frame goes on at line next
Advance(rest, f, next) == Running(Append(rest, [f EXCEPT !.idx = next]))

\* the frame of parseObject while the call for the value of key runs
Waiting(f, next, key) == [f EXCEPT !.idx = next, !.key = key]

\* if (header.key) obj[header.key] = array
HeaderKey(key) == IF key.null \/ key.s = <<>> THEN NoKey ELSE key

\* the body of the while loop of parseObject; rest are the callers
StepObjectSet(rest, f, next, key, v) ==
    IF ~v.ok THEN Finished(v)
    ELSE Running(Append(rest, [f EXCEPT !.idx = next, !.acc = ObjSet(@, key, v.v)]))

StepObjectNamedArray(rest, f, lines, o, hr) ==
    IF ~hr.ok THEN Finished(hr)
    ELSE CallArray(Append(rest,
                          Waiting(f, findNextSiblingIndex(lines, f.idx, f.expectedIndent),
                                  HeaderKey(hr.v.key))),
                   lines, f.idx, o)

StepObjectHeaderLine(rest, f, lines, o, headerMatch) ==
    IF headerMatch.m /\ Trim(headerMatch.g1) # <<>>
    THEN StepObjectNamedArray(rest, f, lines, o, parseArrayHeader(lines[f.idx]))
    ELSE Advance(rest, f, f.idx + 1)

StepObjectNested(rest, f, lines, o, key, next) ==
    IF ContainsHeaderPat(Trim(lines[f.idx + 1].content))
    THEN CallArray(Append(rest, Waiting(f, next, Key(key))), lines, f.idx + 1, o)
    ELSE Running(Append(rest, Waiting(f, next, Key(key)))
                 \o <<ObjectFrame(lines, f.idx + 1, lines[f.idx].indent + o.indent)>>)

StepObjectEmptyValue(rest, f, lines, o, key) ==
    IF HasDeeperNext(lines, f.idx)
    THEN StepObjectNested(rest, f, lines, o, key,
                          findNextSiblingIndex(lines, f.idx + 1, lines[f.idx].indent))
    ELSE Running(Append(rest, [f EXCEPT !.idx = f.idx + 1,
                                        !.acc = ObjSet(@, key, JNull)]))

StepObjectKeyValue(rest, f, lines, o, key, valuePart) ==
    IF ~key.ok THEN Finished(key)
    ELSE IF valuePart = <<>> THEN StepObjectEmptyValue(rest, f, lines, o, key.v.v)
    ELSE StepObjectSet(rest, f, f.idx + 1, key.v.v, parseTokenValue(valuePart))

StepObjectColon(rest, f, lines, o, content, colonIndex) ==
    IF colonIndex < 0 THEN Advance(rest, f, f.idx + 1)
    ELSE StepObjectKeyValue(rest, f, lines, o,
                            UnquoteKey(Trim(Slice(content, 0, colonIndex))),
                            Trim(SliceFrom(content, colonIndex + 1)))

StepObjectLine(rest, f, lines, o, content) ==
    IF ContainsHeaderPat(content)
    THEN StepObjectHeaderLine(rest, f, lines, o, HeaderPrefix(content))
    ELSE StepObjectColon(rest, f, lines, o, content, findUnquotedColon(content))

StepObject(rest, f, lines, o) ==
    IF lines[f.idx].isEmpty THEN Advance(rest, f, f.idx + 1)
    ELSE IF f.idx > f.startIndex /\ lines[f.idx].indent < f.expectedIndent
    THEN Return(rest, Ok(JObj(f.acc)))
    ELSE StepObjectLine(rest, f, lines, o, Trim(lines[f.idx].content))

\* the body of the while loop of parseArray
\* the frame after saving any pending object, going on at line next
Pushed(f, next) ==
    [f EXCEPT !.idx = next, !.acc = Flush(@, f.cur), !.cur = NullObj, !.seen = {}]

StepArrayPush(rest, f, next, v) ==
    IF ~v.ok THEN Finished(v)
    ELSE Running(Append(rest, Receive(Pushed(f, next), v.v)))

StepArrayField(rest, f, key, tv) ==
    IF ~tv.ok THEN Finished(tv)
    ELSE IF key \in f.seen
    THEN Running(Append(rest,
                        [f EXCEPT !.idx = f.idx + 1, !.acc = Flush(@, f.cur),
                                  !.cur = [null |-> FALSE,
                                           es |-> ObjSet(<<>>, key, tv.v)],
                                  !.seen = {key}]))
    ELSE Running(Append(rest,
                        [f EXCEPT !.idx = f.idx + 1,
                                  !.cur = [null |-> FALSE,
                                           es |-> ObjSet(f.cur.es, key, tv.v)],
                                  !.seen = @ \cup {key}]))

StepArrayKeyValue(rest, f, lines, o, key, valuePart) ==
    IF ~key.ok THEN Finished(key)
    ELSE IF valuePart = <<>>
    THEN Running(Append(rest,
                        Pushed(f, findNextSiblingIndex(lines, f.idx, f.expectedIndent)))
                 \o <<ObjectFrame(lines, f.idx, f.expectedIndent)>>)
    ELSE StepArrayField(rest, f, key.v.v, parseTokenValue(valuePart))

StepArrayColon(rest, f, lines, o, content, colonIndex) ==
    IF colonIndex > 0
    THEN StepArrayKeyValue(rest, f, lines, o,
                           UnquoteKey(Trim(Slice(content, 0, colonIndex))),
                           Trim(SliceFrom(content, colonIndex + 1)))
    ELSE StepArrayPush(rest, f, f.idx + 1, parseTokenValue(content))

StepArrayNested(rest, f, lines, o, hr) ==
    IF ~hr.ok THEN Finished(hr)
    ELSE CallArray(Append(rest,
                          Pushed(f, IF NestedIsInline(lines[f.idx]) THEN f.idx + 1
                                    ELSE findNextSiblingIndex(lines, f.idx,
                                                              f.expectedIndent))),
                   lines, f.idx, o)

StepArrayElement(rest, f, lines, o, content) ==
    IF StartsWithHeaderPat(content)
    THEN StepArrayNested(rest, f, lines, o, parseArrayHeader(lines[f.idx]))
    ELSE IF Includes(content, ":")
    THEN StepArrayColon(rest, f, lines, o, content, findUnquotedColon(content))
    ELSE StepArrayPush(rest, f, f.idx + 1, parseTokenValue(content))

StepArray(rest, f, lines, o) ==
    IF lines[f.idx].isEmpty
    THEN IF o.strict
         THEN Finished(Throw(ToonDecodingError("Blank lines not allowed in arrays",
                                               lines[f.idx].lineNumber)))
         ELSE Advance(rest, f, f.idx + 1)
    ELSE IF lines[f.idx].indent <= f.baseIndent
    THEN Return(rest, FinishArray(Flush(f.acc, f.cur), f.header, o))
    ELSE IF lines[f.idx].indent < f.expectedIndent
    THEN Finished(Throw(ToonDecodingError("Invalid indentation", lines[f.idx].lineNumber)))
    ELSE StepArrayElement(rest, f, lines, o, Trim(lines[f.idx].content))

\* the body of the while loop of parseTabularArray
StepTabularPush(rest, f, row) ==
    IF ~row.ok THEN Finished(row)
    ELSE Running(Append(rest, [f EXCEPT !.idx = f.idx + 1,
                                        !.acc = Append(@, JObj(row.v))]))

StepTabularRow(rest, f, lines, o, tokens) ==
    IF o.strict /\ Len(tokens) # Len(f.header.fields.names)
    THEN Finished(Throw(ToonDecodingError("Row field count mismatch",
                                          lines[f.idx].lineNumber)))
    ELSE StepTabularPush(rest, f, BuildRow(f.header.fields.names, tokens, 1, <<>>))

StepTabular(rest, f, lines, o) ==
    IF lines[f.idx].isEmpty
    THEN IF o.strict
         THEN Finished(Throw(ToonDecodingError("Blank lines not allowed in arrays",
                                               lines[f.idx].lineNumber)))
         ELSE Advance(rest, f, f.idx + 1)
    ELSE IF lines[f.idx].indent <= f.baseIndent THEN Return(rest, Ok(JArr(f.acc)))
    ELSE StepTabularRow(rest, f, lines, o,
                        parseDelimitedTokens(Trim(lines[f.idx].content),
                                             f.header.delimiter))

\* decode up to the first loop iteration
BeginRoot(lines, o, rootForm) ==
    IF rootForm = "array" THEN CallArray(<<>>, lines, 1, o)
    ELSE IF rootForm = "primitive" THEN Finished(parseTokenValue(Trim(lines[1].content)))
    ELSE Running(<<ObjectFrame(lines, 1, 0)>>)

BeginNonEmpty(lines, o) ==
    IF lines = <<>> THEN Finished(Ok(JNull))
    ELSE BeginRoot(lines, o, determineRootForm(lines))

BeginLines(o, pl) ==
    IF ~pl.ok THEN Finished(pl) ELSE BeginNonEmpty(FilterNonEmpty(pl.v), o)

\* the machine state m becomes the state of the invocation; when the
\* parsing has ended decode expands the paths and returns or throws
Proceed(m) ==
    IF m.stack # <<>>
    THEN /\ stack' = m.stack
         /\ pc' = "loop"
         /\ UNCHANGED <<result, proto>>
    ELSE /\ stack' = <<>>
         /\ Decoded(DecodeResult(opts, proto, m.out))

Callers == SubSeq(stack, 1, Len(stack) - 1)
Top == stack[Len(stack)]

\* the condition of the while loop of the call f
LoopCondition(f) ==
    IF f.fn = "tabular" THEN f.idx <= Len(f.lines) /\ Len(f.acc) < f.header.length
    ELSE f.idx <= Len(f.lines)

\* what the call f returns when its loop has ended
AfterLoop(f, o) ==
    IF f.fn = "object" THEN Ok(JObj(f.acc))
    ELSE IF f.fn = "tabular" THEN Ok(JArr(f.acc))
    ELSE FinishArray(Flush(f.acc, f.cur), f.header, o)

DecodeBegin ==
    /\ pc = "text"
    /\ \E m \in {BeginLines(opts, parseLines(text, opts))} : Proceed(m)
    /\ UNCHANGED <<opts, value, text>>

LoopTest ==
    /\ pc = "loop"
    /\ IF LoopCondition(Top)
       THEN /\ pc' = "body"
            /\ UNCHANGED <<result, proto, stack>>
       ELSE \E m \in {Return(Callers, AfterLoop(Top, opts))} : Proceed(m)
    /\ UNCHANGED <<opts, value, text>>

ParseObjectBody ==
    /\ pc = "body"
    /\ Top.fn = "object"
    /\ \E m \in {StepObject(Callers, Top, Top.lines, opts)} : Proceed(m)
    /\ UNCHANGED <<opts, value, text>>

ParseArrayBody ==
    /\ pc = "body"
    /\ Top.fn = "array"
    /\ \E m \in {StepArray(Callers, Top, Top.lines, opts)} : Proceed(m)
    /\ UNCHANGED <<opts, value, text>>

ParseTabularBody ==
    /\ pc = "body"
    /\ Top.fn = "tabular"
    /\ \E m \in {StepTabular(Callers, Top, Top.lines, opts)} : Proceed(m)
    /\ UNCHANGED <<opts, value, text>>

MaxCursorLines == 3
CursorLines ==
    {<<"a", ":", SP, "1">>,
     <<"a", ":">>,
     <<SP, SP, "b", ":", SP, "1">>,
     <<SP, SP, "b", ":">>,
     <<SP, SP, SP, SP, "c", ":", SP, "1">>,
     <<"k", "[", "2", "]", ":">>,
     <<"k", "[", "2", "]", ":", SP, "1", ",", "2">>,
     <<SP, SP, "[", "1", "]", ":">>,
     <<SP, SP, "1">>,
     <<SP, SP, SP, SP, "1">>,
     <<"k", "[", "1", "]", "{", "a", "}", ":">>,
     <<"[", "2", "]", ":">>}

InitCursor ==
    /\ pc = "text"
    /\ \E s \in BOOLEAN : opts = [DefaultOpts EXCEPT !.strict = s]
    /\ value = Undefined
    /\ \E k \in 1..MaxCursorLines : \E ls \in [1..k -> CursorLines] : text = JoinLines(ls)
    /\ result = NoResult
    /\ proto = <<>>
    /\ stack = <<>>

Parsing == pc \in {"loop", "body"}
ParseStep == LoopTest \/ ParseObjectBody \/ ParseArrayBody \/ ParseTabularBody
NextCursor == DecodeBegin \/ ParseStep

\* JavaScript runs a call to completion: while the call is in its loops the
\* next test or body is executed, nothing else is scheduled meanwhile.
\* This is WF_vars(ParseStep) with ENABLED <<ParseStep>>_vars written out
\* as Parsing: a test or a body can be executed exactly in those states.
RunsOn == []<>(~Parsing) \/ []<><<Parsing>>_vars
SpecCursor == InitCursor /\ [][NextCursor]_vars /\ RunsOn

\* a body that does not end its loop leaves the cursor of its call at a
\* later line, and a call it makes starts at the line of the body or after
CursorForward ==
    (pc = "body" /\ pc' = "loop") =>
        /\ Len(stack') >= Len(stack) => stack'[Len(stack)].idx > Top.idx
        /\ Len(stack') > Len(stack) =>
               /\ Len(stack') = Len(stack) + 1
               /\ stack'[Len(stack')].startIndex >= Top.idx

\* C30: decode terminates on every text, in strict and lax mode: every
\* iteration of the loops of parseObject, parseArray and parseTabularArray
\* moves the line cursor of its call forward, every call starts at the
\* line its caller is at or at a later one, and the invocation reaches its
\* end, where it has returned a value or raised.
C30_DecodeTerminates ==
    /\ [][CursorForward]_vars
    /\ Parsing ~> (pc = "decoded" /\ result # NoResult)

\* inside the object under a key of the root object, the loop of the inner
\* call has moved past its first line while the outer call waits
C30_Witness ==
    /\ pc = "loop"
    /\ Len(stack) = 2
    /\ Top.fn = "object"
    /\ Top.idx > Top.startIndex
    /\ stack[1].idx > Top.startIndex

====
